---- MODULE Spec2Model ----
(***************************************************************************)
(* Model of the math arcade game in src/enhanced-math-game(1).py.          *)
(*                                                                         *)
(* Two parts share this module:                                            *)
(*   - class Problem (generation of a problem and of its wrong answers)    *)
(*     and Game.create_answer_buttons, specification SpecProblem;          *)
(*   - class Game (handle_input / update of the main loop), specifications *)
(*     SpecGame (every input, the first points of a game) and SpecSession  *)
(*     (answers and level-ups of a longer session).                        *)
(*                                                                         *)
(* Numbers: the program mixes Python ints and floats with up to three      *)
(* decimals (0.707, 0.866, 12.57).  Every answer value is kept here as an  *)
(* integer number of thousandths (Scale), so 0.707 is 707 and 12 is 12000. *)
(* Operators '×' and '÷' of the source are written "*" and "/".            *)
(***************************************************************************)
EXTENDS Integers, Sequences, FiniteSets, Bags, TLC

(***************************************************************************)
(* Bounds of the model (not program constants).                            *)
(***************************************************************************)
\* random.randint(lo, hi) is explored on the Span lowest and the Span
\* highest values of lo..hi when it draws an operand of a problem, and on
\* the DrawSpan lowest and highest when it draws the offset of a wrong answer
Span == 1
DrawSpan == 1
\* most bullets in flight, most rectangle overlaps in one collision pass
MaxBullets == 1
MaxContacts == 2
\* specification SpecGame follows a game up to this level and this score
\* (the points of the first kills; answers are followed in SpecSession)
MaxLevel == 1
MaxScore == 20
\* a high score found in high_score.txt at start-up
StoredHighScore == 10
\* the same for specification SpecSession
SessionLevel == 2
SessionScore == 320
SessionContacts == 1
\* the same for specification SpecRestart
RestartScore == 65
RestartContacts == 1
\* the same for specification SpecMenu
MenuContacts == 1
\* the same for specification SpecWave
WaveScore == 70
WaveContacts == 1
\* Problem(difficulty) on its own: how many difficulties below 1 and above
\* max_difficulty are tried
Below == 2
Above == 2
\* specification SpecArena follows a moving object for this many ticks, from
\* the StartSpan lowest and highest coordinates and the middle one
ArenaTicks == 2
StartSpan == 1

(***************************************************************************)
(* Program constants.                                                      *)
(***************************************************************************)
Scale == 1000
max_difficulty == 15
Count == 3
NumStrategies == 13
PosScale == 10000
WINDOW_WIDTH == 900
WINDOW_HEIGHT == 700
PLAYER_SPEED == 6
player_size == 20
enemy_size == 30
RETRO_WINDOW_WIDTH == 800
RETRO_WINDOW_HEIGHT == 600
RETRO_PLAYER_SPEED == 5

Abs(x) == IF x < 0 THEN -x ELSE x
Max(a, b) == IF a >= b THEN a ELSE b
Min(a, b) == IF a <= b THEN a ELSE b

\* a Python int as a number of thousandths
V(n) == n * Scale

\* the values of random.randint(lo, hi) that the model explores
Ends(lo, hi, span) ==
  {x \in (lo..(lo + span - 1)) \cup ((hi - span + 1)..hi) : lo <= x /\ x <= hi}
Rand(lo, hi) == Ends(lo, hi, Span)
Draw(lo, hi) == Ends(lo, hi, DrawSpan)

\* a ** n for n >= 0
RECURSIVE Pow(_, _)
Pow(a, n) == IF n = 0 THEN 1 ELSE a * Pow(a, n - 1)

(***************************************************************************)
(* Problem.problem_text.  The f-string is kept as its parts: the layout    *)
(* (form) and the numbers and operator printed in it.                      *)
(*   "bin"      "{a} {op} {b}"                                             *)
(*   "sq"       "{a}^2"         "cube"  "{a}^3"     "pow"  "{a}^{b}"       *)
(*   "sqrt"     "√{a}"                                                     *)
(*   "mul_op"   "{a}×{b}{op}{c}"                                           *)
(*   "op_mul"   "{a}{op}{b}×{c}"                                           *)
(*   others     the word problems of difficulty 10 and above               *)
(***************************************************************************)
Text(form, a, b, c, op) == [form |-> form, a |-> a, b |-> b, c |-> c, op |-> op]

\* the binary operators as arithmetic reads them
ApplyOp(op, x, y) ==
  CASE op = "+" -> x + y
    [] op = "-" -> x - y
    [] op = "*" -> x * y
    [] op = "/" -> x \div y
    [] OTHER -> 0

\* the integer value of a displayed arithmetic statement, read with the
\* standard precedence (powers and roots, then ×, then + and -)
EvalText(t) ==
  CASE t.form = "bin" -> ApplyOp(t.op, t.a, t.b)
    [] t.form = "sq" -> t.a * t.a
    [] t.form = "cube" -> t.a * t.a * t.a
    [] t.form = "pow" -> Pow(t.a, t.b)
    [] t.form = "sqrt" -> CHOOSE r \in 0..t.a : r * r = t.a
    [] t.form = "mul_op" -> ApplyOp(t.op, t.a * t.b, t.c)
    [] t.form = "op_mul" -> ApplyOp(t.op, t.a, t.b * t.c)
    [] OTHER -> 0

(***************************************************************************)
(* A Problem instance after __init__.  has_num1 / has_num2 / has_operator  *)
(* are hasattr(self, ...); an attribute that was never set reads 0 / "".   *)
(* correct_answer is in thousandths; is_float tells a Python float from an *)
(* int.                                                                    *)
(***************************************************************************)
MkProblem(d, fam, h1, h2, hop, n1, n2, n3, op, ans, isf, txt) ==
  [difficulty |-> d, family |-> fam,
   has_num1 |-> h1, has_num2 |-> h2, has_operator |-> hop,
   num1 |-> n1, num2 |-> n2, num3 |-> n3, operator |-> op,
   correct_answer |-> ans, is_float |-> isf, problem_text |-> txt]

\* Problem._calculate_answer
CalculateAnswer(has_op, num1, num2, op) ==
  IF ~has_op THEN 0
  ELSE CASE op = "+" -> V(num1 + num2)
         [] op = "-" -> V(num1 - num2)
         [] op = "*" -> V(num1 * num2)
         [] op = "/" -> IF num1 % num2 = 0
                        THEN V(num1 \div num2)
                        \* round(num1 / num2, 2)
                        ELSE 10 * ((200 * num1 + num2) \div (2 * num2))
         [] OTHER -> 0

\* the swap of lines 285-286 and 307-308
SwapIfNegative(op, n1, n2) ==
  IF op = "-" /\ n2 > n1 THEN <<n2, n1>> ELSE <<n1, n2>>

\* _generate_basic_arithmetic without the test of line 281
BasicArithmeticAnyOperator(d) ==
  LET max_num == 10 * d
  IN {LET n == SwapIfNegative(op, a, b)
      IN MkProblem(d, "basic", TRUE, TRUE, TRUE, n[1], n[2], 0, op,
                   CalculateAnswer(TRUE, n[1], n[2], op), FALSE,
                   Text("bin", n[1], n[2], 0, op))
      : a \in Rand(1, max_num), b \in Rand(1, max_num), op \in {"+", "-"}}

\* Problem._generate_basic_arithmetic
BasicArithmetic(d) ==
  LET max_num == 10 * d
      ops == IF d = 1 THEN {"+"} ELSE {"+", "-"}
  IN {LET n == SwapIfNegative(op, a, b)
      IN MkProblem(d, "basic", TRUE, TRUE, TRUE, n[1], n[2], 0, op,
                   CalculateAnswer(TRUE, n[1], n[2], op), FALSE,
                   Text("bin", n[1], n[2], 0, op))
      : a \in Rand(1, max_num), b \in Rand(1, max_num), op \in ops}

\* _generate_intermediate_arithmetic without the assignment of line 316:
\* the dividend stays the number drawn at line 296
IntermediateArithmeticAnyDividend(d) ==
  LET max_num == 8 * d
      small_max == max_num \div 2
      ops == IF d <= 4 THEN {"+", "-", "*"} ELSE {"+", "-", "*", "/"}
      AddSub == {LET n == SwapIfNegative(op, a, b)
                 IN <<n[1], n[2], op>>
                 : a \in Rand(2, max_num), b \in Rand(1, max_num),
                   op \in ops \cap {"+", "-"}}
      Mul == {<<a, b, "*">> : a \in Rand(2, max_num), b \in Rand(2, small_max)}
      Div == IF "/" \in ops
             THEN {<<a, b, "/">> : a \in Rand(2, max_num), b \in Rand(2, small_max)}
             ELSE {}
  IN {MkProblem(d, "intermediate", TRUE, TRUE, TRUE, t[1], t[2], 0, t[3],
                CalculateAnswer(TRUE, t[1], t[2], t[3]), FALSE,
                Text("bin", t[1], t[2], 0, t[3]))
      : t \in AddSub \cup Mul \cup Div}

\* Problem._generate_intermediate_arithmetic
IntermediateArithmetic(d) ==
  LET max_num == 8 * d
      small_max == max_num \div 2
      ops == IF d <= 4 THEN {"+", "-", "*"} ELSE {"+", "-", "*", "/"}
      AddSub == {LET n == SwapIfNegative(op, a, b)
                 IN <<n[1], n[2], op>>
                 : a \in Rand(2, max_num), b \in Rand(1, max_num),
                   op \in ops \cap {"+", "-"}}
      Mul == {<<a, b, "*">> : a \in Rand(2, max_num), b \in Rand(2, small_max)}
      Div == IF "/" \in ops
             THEN {<<b * q, b, "/">> : b \in Rand(2, small_max), q \in Rand(1, 10)}
             ELSE {}
  IN {MkProblem(d, "intermediate", TRUE, TRUE, TRUE, t[1], t[2], 0, t[3],
                CalculateAnswer(TRUE, t[1], t[2], t[3]), FALSE,
                Text("bin", t[1], t[2], 0, t[3]))
      : t \in AddSub \cup Mul \cup Div}

\* Problem._generate_advanced_arithmetic; the four (operator, formula) pairs
\* of the list `ops` are numbered 1..4 in the order of the source
MixedOperator(i) == IF i \in {1, 3} THEN "+" ELSE "-"

MixedFormula(i, a, b, c) ==
  CASE i = 1 -> a * b + c
    [] i = 2 -> a * b - c
    [] i = 3 -> a + b * c
    [] OTHER -> a - b * c

\* the text chosen by random.choice([True, False]) at line 370
MixedText(first, a, b, c, op) ==
  IF first THEN Text("mul_op", a, b, c, op) ELSE Text("op_mul", a, b, c, op)

AdvancedArithmetic(d) ==
  LET Squares == {MkProblem(d, "square", TRUE, FALSE, TRUE, a, 0, 0, "^2",
                            V(a * a), FALSE, Text("sq", a, 0, 0, "^2"))
                  : a \in Rand(2, 20)}
      Roots == {MkProblem(d, "sqrt", TRUE, FALSE, TRUE, r * r, 0, 0, "sqrt",
                          V(r), FALSE, Text("sqrt", r * r, 0, 0, "sqrt"))
                : r \in Rand(2, 15)}
      Cubes == {MkProblem(d, "cube", TRUE, FALSE, TRUE, a, 0, 0, "^3",
                          V(a * a * a), FALSE, Text("cube", a, 0, 0, "^3"))
                : a \in Rand(2, 10)}
      Powers == {MkProblem(d, "power", TRUE, TRUE, TRUE, a, b, 0, "^",
                           V(Pow(a, b)), FALSE, Text("pow", a, b, 0, "^"))
                 : a \in Rand(2, 8), b \in Rand(2, 4)}
      Mixed == {MkProblem(d, "mixed", TRUE, TRUE, TRUE, a, b, c, MixedOperator(i),
                          V(MixedFormula(i, a, b, c)), FALSE,
                          MixedText(first, a, b, c, MixedOperator(i)))
                : a \in Rand(2, 15), b \in Rand(2, 10), c \in Rand(2, 20),
                  i \in 1..4, first \in BOOLEAN}
  IN Squares \cup Roots \cup Cubes \cup Powers \cup Mixed

\* a problem without num1 / num2 / operator attributes
WordProblem(d, fam, ans, isf, txt) ==
  MkProblem(d, fam, FALSE, FALSE, FALSE, 0, 0, 0, "", ans, isf, txt)

\* Problem._generate_simple_algebra
SimpleAlgebra(d) ==
  LET Plus == {WordProblem(d, "linear", V(x), FALSE,
                           Text("ax+b=c", a, b, a * x + b, "+"))
               : a \in Rand(1, 8), x \in Rand(1, 12), b \in Rand(1, 20)}
      Minus == {WordProblem(d, "linear", V(x), FALSE,
                            Text("ax-b=c", a, b, a * x - b, "-"))
                : a \in Rand(1, 8), x \in Rand(1, 12), b \in Rand(1, 20)}
      System == {WordProblem(d, "system", V(IF askx THEN x ELSE y), FALSE,
                             Text(IF askx THEN "system_x" ELSE "system_y",
                                  x + y, x - y, 0, ""))
                 : x \in Rand(1, 20), y \in Rand(1, 20), askx \in BOOLEAN}
  IN Plus \cup Minus \cup System

\* the angle tables of lines 419 and 427: <<angle, result in thousandths,
\* result is a float>>
SinChoices == {<<0, 0, FALSE>>, <<30, 500, TRUE>>, <<45, 707, TRUE>>,
               <<60, 866, TRUE>>, <<90, 1000, FALSE>>}
CosChoices == {<<0, 1000, FALSE>>, <<30, 866, TRUE>>, <<45, 707, TRUE>>,
               <<60, 500, TRUE>>, <<90, 0, FALSE>>}

\* round(math.pi * n, 2) in thousandths, for the integers n the circle
\* problems use (n <= 100); math.pi is taken as 3.1416, which gives the
\* same two decimals as the float for every radius in 1..10
RoundPiTimes(n) == 10 * ((31416 * n + 50) \div 100)

\* the answer of the quadratic x² + bx + c = 0 built from the roots x1 and x2
\* (line 444); its text prints b = -(x1 + x2) and c = x1 * x2
QuadraticAnswer(x1, x2) == IF Abs(x1) <= Abs(x2) THEN x1 ELSE x2

\* Problem._generate_advanced_math
AdvancedMath(d) ==
  LET Sin == {WordProblem(d, "sin", t[2], t[3], Text("sin", t[1], 0, 0, ""))
              : t \in SinChoices}
      Cos == {WordProblem(d, "cos", t[2], t[3], Text("cos", t[1], 0, 0, ""))
              : t \in CosChoices}
      Quadratic == {WordProblem(d, "quadratic", V(QuadraticAnswer(x1, x2)), FALSE,
                                Text("quadratic", -(x1 + x2), x1 * x2, 0, ""))
                    : x1 \in -5..5, x2 \in -5..5}
      Square == {WordProblem(d, "square_geo",
                             V(IF area THEN side * side ELSE 4 * side), FALSE,
                             Text(IF area THEN "square_area" ELSE "square_perimeter",
                                  side, 0, 0, ""))
                 : side \in Rand(3, 15), area \in BOOLEAN}
      Circle == {WordProblem(d, "circle",
                             IF area THEN RoundPiTimes(radius * radius)
                                     ELSE RoundPiTimes(2 * radius), TRUE,
                             Text(IF area THEN "circle_area" ELSE "circumference",
                                  radius, 0, 0, ""))
                 : radius \in Rand(1, 10), area \in BOOLEAN}
      Triangle == {WordProblem(d, "triangle", V((base * height) \div 2), FALSE,
                               Text("triangle_area", base, height, 0, ""))
                   : base \in Rand(5, 20), height \in Rand(5, 15)}
      Rectangle == {WordProblem(d, "rectangle",
                                V(IF area THEN length * width
                                          ELSE 2 * (length + width)), FALSE,
                                Text(IF area THEN "rect_area" ELSE "rect_perimeter",
                                     length, width, 0, ""))
                    : length \in Rand(5, 20), width \in Rand(3, 15),
                      area \in BOOLEAN}
      LogExp == {WordProblem(d, "logexp",
                             V(IF log THEN power ELSE Pow(base, power)), FALSE,
                             Text(IF log THEN "log" ELSE "exp", base, power, 0, ""))
                 : base \in {2, 10}, power \in Rand(1, 5), log \in BOOLEAN}
  IN Sin \cup Cos \cup Quadratic \cup Square \cup Circle \cup Triangle
       \cup Rectangle \cup LogExp

\* Problem.generate: every problem Problem(difficulty) can be
Generate(difficulty) ==
  LET diff == Min(difficulty, max_difficulty)
  IN IF diff <= 3 THEN BasicArithmetic(difficulty)
     ELSE IF diff <= 6 THEN IntermediateArithmetic(difficulty)
     ELSE IF diff <= 9 THEN AdvancedArithmetic(difficulty)
     ELSE IF diff <= 12 THEN SimpleAlgebra(difficulty)
     ELSE AdvancedMath(difficulty)

(***************************************************************************)
(* Problem.generate_wrong_answers and Game.create_answer_buttons.          *)
(***************************************************************************)
\* int(str(n)[::-1]) for an int n >= 0: the decimal digits of n reversed
RECURSIVE ReverseDigits(_, _)
ReverseDigits(n, acc) ==
  IF n = 0 THEN acc ELSE ReverseDigits(n \div 10, (acc * 10) + (n % 10))

\* hasattr(self, 'num1') and hasattr(self, 'num2')
HasOperands(p) == p.has_num1 /\ p.has_num2

\* max(2, int(abs(correct) * 0.2)) and max(5, int(abs(correct) * 0.5))
NearRange(correct) == Max(2, Abs(correct) \div (5 * Scale))
WideRange(correct) == Max(5, Abs(correct) \div (2 * Scale))

\* strategy k of the list `strategies` (1..13 in the order of the source)
\* raises: int() of the reversed text of a float has a '.' in it
StrategyRaises(p, k) ==
  k = 11 /\ Abs(p.correct_answer) > V(9) /\ p.is_float

\* the values strategy k can return for problem p
StrategyValues(p, k) ==
  LET correct == p.correct_answer
  IN CASE k = 1 -> {correct + V(r) : r \in Draw(1, NearRange(correct))}
       [] k = 2 -> {correct - V(r) : r \in Draw(1, NearRange(correct))}
       [] k = 3 -> {correct * 2}
       [] k = 4 -> {IF correct # 0 THEN (correct \div (2 * Scale)) * Scale ELSE V(1)}
       [] k = 5 -> {-correct}
       [] k = 6 -> {IF HasOperands(p) /\ p.operator # "+"
                    THEN V(p.num1 + p.num2) ELSE correct + V(1)}
       [] k = 7 -> {IF HasOperands(p) /\ p.operator # "-"
                    THEN V(p.num1 - p.num2) ELSE correct - V(1)}
       [] k = 8 -> {IF HasOperands(p) /\ p.operator # "*"
                    THEN V(p.num1 * p.num2) ELSE correct * 2}
       [] k = 9 -> {correct + V(1)}
       [] k = 10 -> {correct - V(1)}
       [] k = 11 -> IF Abs(correct) > V(9)
                    THEN IF p.is_float THEN {}
                         ELSE {V(ReverseDigits(Abs(correct) \div Scale, 0))
                               * (IF correct >= 0 THEN 1 ELSE -1)}
                    ELSE {correct + V(2)}
       [] k = 12 -> {correct + V(r) : r \in Draw(3, WideRange(correct))}
       [] OTHER -> {correct - V(r) : r \in Draw(3, WideRange(correct))}

\* the test of lines 567-569 without its `wrong != correct`
AcceptableAlsoCorrect(correct, wrong_set, wrong) ==
  LET max_diff == Max(V(10), Abs(correct) * 2)
  IN /\ wrong \notin wrong_set
     /\ Abs(wrong - correct) <= max_diff
     /\ Abs(wrong) <= Abs(correct) * 5

\* the test of lines 567-569 without its two closeness conditions
AcceptableAnyDistance(correct, wrong_set, wrong) ==
  /\ wrong # correct
  /\ wrong \notin wrong_set

\* the test of lines 567-569
Acceptable(correct, wrong_set, wrong) ==
  LET max_diff == Max(V(10), Abs(correct) * 2)
  IN /\ wrong # correct
     /\ wrong \notin wrong_set
     /\ Abs(wrong - correct) <= max_diff
     /\ Abs(wrong) <= Abs(correct) * 5

\* the condition of the while loop at line 562
StrategyLoopRuns(wrong_set) ==
  Cardinality(wrong_set) < Count /\ Cardinality(wrong_set) < NumStrategies

\* int(x) of a value in thousandths: truncation toward zero
Trunc(x) == IF x >= 0 THEN x \div Scale ELSE -((-x) \div Scale)

\* int(correct * f) for the factor f = tenths / 10
TruncTimes(correct, tenths) ==
  IF correct >= 0 THEN (correct * tenths) \div (10 * Scale)
  ELSE -(((-correct) * tenths) \div (10 * Scale))

\* the values the random fallback of lines 575-578 can draw
FallbackValues(correct) ==
  IF Abs(correct) < V(10)
  THEN {V(n) : n \in Draw(Max(-20, Trunc(correct) - 20), Trunc(correct) + 20)}
  ELSE {V(n) : n \in Draw(Min(TruncTimes(correct, 2), TruncTimes(correct, 18)),
                          Max(TruncTimes(correct, 2), TruncTimes(correct, 18)))}

\* the sets the while loop at line 573 can end with
FallbackResults(correct, wrong_set) ==
  IF Cardinality(wrong_set) >= Count THEN {wrong_set}
  ELSE {wrong_set \cup X : X \in
          {Y \in SUBSET (FallbackValues(correct) \ (wrong_set \cup {correct})) :
             Cardinality(wrong_set \cup Y) = Count}}

\* the (button, is_correct) pairs of lines 1218-1226 for the answers
\* wrong_answers + [correct_answer].  random.shuffle and the iteration order
\* of the set decide only the order of the list, which nothing reads but the
\* layout: the list is kept up to its order, as the bag of its pairs.
ButtonsFor(wrong_set, correct_answer) ==
  LET Pair(answer) == [answer |-> answer, is_correct |-> answer = correct_answer]
  IN SetToBag({Pair(w) : w \in wrong_set}) (+) SetToBag({Pair(correct_answer)})

(***************************************************************************)
(* class Game.  The Game instance is the record `game`; the operators      *)
(* below take the instance g and return it as the method leaves it.        *)
(*                                                                         *)
(* Times are integer milliseconds (Clock.get_time()); the source divides   *)
(* by 1000.0 and its timers 0.8, 1.0, 2.0, 3.0 and 0.2 s are 800, 1000,    *)
(* 2000, 3000 and 200 here.                                                *)
(*                                                                         *)
(* Positions are not part of this record: whether two rectangles overlap   *)
(* in a collision pass and whether a bullet leaves the arena are inputs of *)
(* Update, any combination being possible for some positions.              *)
(***************************************************************************)
\* timer -= delta_time.  The source only ever tests a timer with `<= 0`, so
\* an expired timer is kept at 0 instead of an ever lower value.
Elapse(timer, dt) == Max(timer - dt, 0)

\* the elapsed times Clock.get_time() is explored on
Deltas == {500, 1000}

\* Player.__init__
\* pos is the position (x, y) up to whether it is the one Game passes to
\* the constructor, (width // 2, height // 2): "centre" or "away"
NewPlayer ==
  [health |-> 3, invulnerable |-> FALSE, invulnerable_time |-> 0, shoot_timer |-> 0,
   pos |-> "centre"]

shoot_delay == 200

\* the delay of Game.game_over before a continue input is honoured
continue_delay == 3000

\* Enemy.__init__: health by difficulty band
EnemyHealth(difficulty) ==
  IF difficulty <= 3 THEN 1 ELSE IF difficulty <= 8 THEN 2 ELSE 3

NewEnemy(difficulty) == [health |-> EnemyHealth(difficulty), is_alive |-> TRUE]

\* Button.__init__: the flag and the counter Button.update works on
NewButton == [clicked |-> FALSE, animation_progress |-> 0]

\* Bullet.__init__
\* hits is not an attribute of Bullet: it counts the calls of Enemy.hit
\* made for this bullet
NewBullet == [active |-> TRUE, hits |-> 0]

\* SoundManager.play(name): the cue handed to the audio sink
Play(g, name) == [g EXCEPT !.cues = @ \cup {name}]

\* Game.save_high_score
SaveHighScore(g) == [g EXCEPT !.saved = TRUE]

\* lines 1280-1282 and 1481-1483 without the test score > high_score
UpdateHighScoreAlways(g) == SaveHighScore([g EXCEPT !.high_score = g.score])

\* the test and update of lines 1280-1282 and 1481-1483
UpdateHighScore(g) ==
  IF g.score > g.high_score
  THEN SaveHighScore([g EXCEPT !.high_score = g.score])
  ELSE g

\* a wrong-answer search that cannot add any value from the set wrong_set
\* and cannot raise: the loop of line 562 never ends
Stuck(p, wrong_set) ==
  /\ StrategyLoopRuns(wrong_set)
  /\ \A k \in 1..NumStrategies :
       /\ ~StrategyRaises(p, k)
       /\ \A wrong \in StrategyValues(p, k) :
            ~Acceptable(p.correct_answer, wrong_set, wrong)

\* the difficulties at which create_answer_buttons may never return, and
\* those at which it may raise
HangTiers == {t \in 1..max_difficulty : \E p \in Generate(t) : Stuck(p, {})}
RaiseTiers ==
  {t \in 1..max_difficulty :
     \E p \in Generate(t) : \E k \in 1..NumStrategies : StrategyRaises(p, k)}

\* how a call of Game.create_new_problem at this difficulty can end
GenOutcomes(tier) ==
  {"ok"} \cup (IF tier \in HangTiers THEN {"hang"} ELSE {})
         \cup (IF tier \in RaiseTiers THEN {"raise"} ELSE {})

\* Game.create_new_problem; gen is how create_answer_buttons ends
CreateNewProblem(g, gen) ==
  LET tier == Min(15, Max(1, g.level))
  IN [g EXCEPT !.current_problem = tier,
               !.proc = CASE gen = "hang" -> "hung"
                          [] gen = "raise" -> "crashed"
                          [] OTHER -> @]

\* Game.spawn_enemies
SpawnEnemies(g) ==
  LET enemy_count == Min(3 + g.level \div 2, 10)
  IN [g EXCEPT !.enemies = [i \in 1..enemy_count |-> NewEnemy(g.level)]]

\* create_new_problem() followed by spawn_enemies() (lines 1337-1338 and
\* 1493-1494); nothing runs after a call that does not return
NewProblemAndWave(g, gen) ==
  LET g1 == CreateNewProblem(g, gen)
  IN IF g1.proc = "running" THEN SpawnEnemies(g1) ELSE g1

\* Game.reset_game without the new Player
ResetGameKeepPlayer(g, gen) ==
  NewProblemAndWave([g EXCEPT !.score = 0, !.level = 1, !.streak = 0,
                              !.bullets = <<>>], gen)

\* Game.reset_game
ResetGame(g, gen) ==
  NewProblemAndWave([g EXCEPT !.score = 0, !.level = 1, !.streak = 0,
                              !.player = NewPlayer, !.bullets = <<>>], gen)

\* Game.level_up
LevelUp(g) == Play([g EXCEPT !.level = @ + 1], "level_up")

\* Game.level_complete returning to the menu instead
LevelCompleteToMenu(g) == [g EXCEPT !.state_timer = 1000, !.state = "MENU"]

\* Game.level_complete with the delay of handle_answer
LevelCompleteAnswerDelay(g) ==
  [g EXCEPT !.state_timer = 800, !.state = "LEVEL_TRANSITION"]

\* Game.level_complete
LevelComplete(g) == [g EXCEPT !.state_timer = 1000, !.state = "LEVEL_TRANSITION"]

\* Game.game_over without its state_timer = 3.0
GameOverNoTimer(g) ==
  UpdateHighScore(Play([g EXCEPT !.state = "GAME_OVER"], "game_over"))

\* Game.game_over with a delay of 1.0 s
GameOverShortDelay(g) ==
  UpdateHighScore(Play([g EXCEPT !.state = "GAME_OVER", !.state_timer = 1000,
                                 !.over_time = 0], "game_over"))

\* Game.game_over
GameOver(g) ==
  UpdateHighScore(Play([g EXCEPT !.state = "GAME_OVER", !.state_timer = 3000,
                                 !.over_time = 0], "game_over"))

\* Enemy.hit: the enemy after the hit (killed iff it is no longer alive)
EnemyHit(e) ==
  [e EXCEPT !.health = @ - 1, !.is_alive = IF e.health - 1 <= 0 THEN FALSE ELSE @]

\* the bonus loop of lines 1431-1434 with the reward of a kill (10 * level)
ClearBonusAsKill(enemies, i, level) ==
  10 * level * Cardinality({j \in i..Len(enemies) : enemies[j].is_alive})

\* the bonus loop of lines 1431-1434: score gained for the alive enemies
RECURSIVE ClearBonus(_, _, _)
ClearBonus(enemies, i, level) ==
  IF i > Len(enemies) THEN 0
  ELSE (IF enemies[i].is_alive THEN 5 * level ELSE 0)
       + ClearBonus(enemies, i + 1, level)

\* Game.handle_answer calling level_up on every correct answer
HandleAnswerAlwaysLevelUp(g, is_correct) ==
  LET answered ==
        IF is_correct
        THEN LET g1 == Play([g EXCEPT !.score = @ + 50 * g.level,
                                      !.streak = @ + 1], "correct")
                 g2 == IF g1.streak > 1
                       THEN [g1 EXCEPT !.score = @ + 25 * g1.streak] ELSE g1
                 g3 == [g2 EXCEPT !.score = @ + ClearBonus(g2.enemies, 1, g2.level),
                                  !.enemies = <<>>]
             IN LevelUp(g3)
        ELSE Play([g EXCEPT !.streak = 0], "incorrect")
  IN [answered EXCEPT !.state_timer = 800, !.state = "LEVEL_TRANSITION"]

\* Game.handle_answer without the streak reset of an incorrect answer
HandleAnswerKeepStreak(g, is_correct) ==
  LET answered ==
        IF is_correct
        THEN LET g1 == Play([g EXCEPT !.score = @ + 50 * g.level,
                                      !.streak = @ + 1], "correct")
                 g2 == IF g1.streak > 1
                       THEN [g1 EXCEPT !.score = @ + 25 * g1.streak] ELSE g1
                 g3 == [g2 EXCEPT !.score = @ + ClearBonus(g2.enemies, 1, g2.level),
                                  !.enemies = <<>>]
             IN IF g3.streak % 3 = 0 THEN LevelUp(g3) ELSE g3
        ELSE Play(g, "incorrect")
  IN [answered EXCEPT !.state_timer = 800, !.state = "LEVEL_TRANSITION"]

\* Game.handle_answer
\* handle_answer without the assignment of line 1453: the state stays
\* PLAYING while state_timer is set
HandleAnswerStayPlaying(g, is_correct) ==
  LET answered ==
        IF is_correct
        THEN LET g1 == Play([g EXCEPT !.score = @ + 50 * g.level,
                                      !.streak = @ + 1], "correct")
                 g2 == IF g1.streak > 1
                       THEN [g1 EXCEPT !.score = @ + 25 * g1.streak] ELSE g1
                 g3 == [g2 EXCEPT !.score = @ + ClearBonus(g2.enemies, 1, g2.level),
                                  !.enemies = <<>>]
             IN IF g3.streak % 3 = 0 THEN LevelUp(g3) ELSE g3
        ELSE Play([g EXCEPT !.streak = 0], "incorrect")
  IN [answered EXCEPT !.state_timer = 800]

HandleAnswer(g, is_correct) ==
  LET answered ==
        IF is_correct
        THEN LET g1 == Play([g EXCEPT !.score = @ + 50 * g.level,
                                      !.streak = @ + 1], "correct")
                 g2 == IF g1.streak > 1
                       THEN [g1 EXCEPT !.score = @ + 25 * g1.streak] ELSE g1
                 g3 == [g2 EXCEPT !.score = @ + ClearBonus(g2.enemies, 1, g2.level),
                                  !.enemies = <<>>]
             IN IF g3.streak % 3 = 0 THEN LevelUp(g3) ELSE g3
        ELSE Play([g EXCEPT !.streak = 0], "incorrect")
  IN [answered EXCEPT !.state_timer = 800, !.state = "LEVEL_TRANSITION"]

\* Game.handle_input.  inp.button is the button whose Button.update returned
\* True in this call ("none" if no button did): "first" / "second" for
\* index 0 / 1 of menu_buttons and pause_buttons, "correct" / "wrong" for an
\* answer button by its is_correct flag.  The rectangles of one list are
\* disjoint, so at most one button of it is under the pointer.
\* inp.esc is keys[K_ESCAPE]; inp.gen is how create_new_problem would end.
HandleInput(g, inp) ==
  LET g0 == [g EXCEPT !.cues = {}, !.saved = FALSE, !.tick_state = g.state,
                      !.answer_state = "none"]
  IN CASE g.state = "MENU" ->
            IF inp.button = "first"
            THEN ResetGame([Play(g0, "button_click") EXCEPT !.state = "PLAYING"],
                           inp.gen)
            ELSE IF inp.button = "second"
            THEN [Play(g0, "button_click") EXCEPT !.proc = "exited"]
            ELSE g0
       [] g.state = "PAUSED" ->
            IF inp.button = "first"
            THEN [Play(g0, "button_click") EXCEPT !.state = "PLAYING"]
            ELSE IF inp.button = "second"
            THEN UpdateHighScore([Play(g0, "button_click") EXCEPT !.state = "MENU"])
            ELSE g0
       [] g.state = "PLAYING" ->
            LET g1 == IF inp.esc THEN [g0 EXCEPT !.state = "PAUSED"] ELSE g0
            IN IF inp.button \in {"correct", "wrong"}
               THEN HandleAnswer([Play(g1, "button_click")
                                    EXCEPT !.answer_state = g1.state],
                                 inp.button = "correct")
               ELSE g1
       [] OTHER -> g0

\* Player.take_damage without the test of line 960
TakeDamageAlways(player) ==
  [player EXCEPT !.health = @ - 1, !.invulnerable = TRUE,
                 !.invulnerable_time = 2000]

\* Player.take_damage: the player after the call
TakeDamage(player) ==
  IF player.invulnerable THEN player
  ELSE [player EXCEPT !.health = @ - 1, !.invulnerable = TRUE,
                      !.invulnerable_time = 2000]

\* the value Player.take_damage returns: the player died
TakeDamageDied(player) == ~player.invulnerable /\ player.health - 1 <= 0

\* the timers of Player.update (lines 871-880): invulnerability and cooldown
PlayerFires(player, dt, space) == space /\ Elapse(player.shoot_timer, dt) <= 0

\* Player.update without the assignment of line 879: no cooldown after a shot
PlayerUpdateNoCooldown(player, dt, space, move) ==
  LET p0 == IF move = "none" THEN player
            ELSE [player EXCEPT !.pos = IF @ = "centre" THEN "away" ELSE move]
      p1 == IF player.invulnerable
            THEN [p0 EXCEPT
                    !.invulnerable_time = Elapse(@, dt),
                    !.invulnerable = IF Elapse(player.invulnerable_time, dt) <= 0
                                     THEN FALSE ELSE @]
            ELSE p0
  IN [p1 EXCEPT !.shoot_timer = Elapse(@, dt)]

\* move is what the directional keys do to the position (lines 829-869):
\* "none", or the position they take the player to
PlayerUpdate(player, dt, space, move) ==
  LET p0 == IF move = "none" THEN player
            ELSE [player EXCEPT !.pos = IF @ = "centre" THEN "away" ELSE move]
      p1 == IF player.invulnerable
            THEN [p0 EXCEPT
                    !.invulnerable_time = Elapse(@, dt),
                    !.invulnerable = IF Elapse(player.invulnerable_time, dt) <= 0
                                     THEN FALSE ELSE @]
            ELSE p0
  IN [p1 EXCEPT !.shoot_timer = IF PlayerFires(player, dt, space)
                                THEN shoot_delay ELSE Elapse(@, dt)]

\* lines 1309-1319: the bullet list after Player.update, Bullet.update of
\* every bullet (those whose index is in out leave the arena) and the
\* removal of the inactive ones
BulletsWithNew(g, dt, space) ==
  IF PlayerFires(g.player, dt, space) THEN Append(g.bullets, NewBullet)
  ELSE g.bullets

BulletsAfterUpdate(g, dt, space, out) ==
  LET moved == [i \in 1..Len(BulletsWithNew(g, dt, space)) |->
                  [BulletsWithNew(g, dt, space)[i] EXCEPT
                     !.active = IF i \in out THEN FALSE ELSE @]]
  IN SelectSeq(moved, LAMBDA b : b.active)

\* the first alive enemy, in list order, whose index is in overlap; 0 if none
FirstAlive(enemies, overlap) ==
  LET hit == {j \in 1..Len(enemies) : enemies[j].is_alive /\ j \in overlap}
  IN IF hit = {} THEN 0 ELSE CHOOSE j \in hit : \A k \in hit : j <= k

\* the enemies whose rectangle overlaps that of bullet i (i >= 1) or of the
\* player (i = 0), for the overlapping pairs `contacts`
OverlapOf(contacts, i) == {c[2] : c \in {d \in contacts : d[1] = i}}

\* the bullet-enemy loop without the assignment of line 1370: the bullet
\* stays active after its hit
RECURSIVE BulletPassKeepActive(_, _, _)
BulletPassKeepActive(g, i, contacts) ==
  IF i > Len(g.bullets) THEN g
  ELSE LET j == IF g.bullets[i].active
                THEN FirstAlive(g.enemies, OverlapOf(contacts, i)) ELSE 0
       IN IF j = 0 THEN BulletPassKeepActive(g, i + 1, contacts)
          ELSE LET e == EnemyHit(g.enemies[j])
                   g1 == Play([g EXCEPT !.enemies[j] = e,
                                        !.bullets[i].hits = @ + 1], "enemy_hit")
                   g2 == IF ~e.is_alive
                         THEN [Play(g1, "enemy_explode") EXCEPT
                                 !.score = @ + 10 * g.level]
                         ELSE g1
               IN BulletPassKeepActive(g2, i + 1, contacts)

\* the bullet-enemy loop of lines 1349-1379, from bullet i on
RECURSIVE BulletPass(_, _, _)
BulletPass(g, i, contacts) ==
  IF i > Len(g.bullets) THEN g
  ELSE LET j == IF g.bullets[i].active
                THEN FirstAlive(g.enemies, OverlapOf(contacts, i)) ELSE 0
       IN IF j = 0 THEN BulletPass(g, i + 1, contacts)
          ELSE LET e == EnemyHit(g.enemies[j])
                   g1 == Play([g EXCEPT !.enemies[j] = e,
                                        !.bullets[i].active = FALSE,
                                        !.bullets[i].hits = @ + 1], "enemy_hit")
                   g2 == IF ~e.is_alive
                         THEN [Play(g1, "enemy_explode") EXCEPT
                                 !.score = @ + 10 * g.level]
                         ELSE g1
               IN BulletPass(g2, i + 1, contacts)

\* the player-enemy loop without the call of game_over (lines 1404-1405)
PlayerPassNoGameOver(g, contacts) ==
  LET j == FirstAlive(g.enemies, OverlapOf(contacts, 0))
  IN IF j = 0 THEN g
     ELSE Play([g EXCEPT !.player = TakeDamage(@),
                         !.enemies[j] = EnemyHit(@)], "player_hit")

\* the player-enemy loop of lines 1382-1407
PlayerPass(g, contacts) ==
  LET j == FirstAlive(g.enemies, OverlapOf(contacts, 0))
  IN IF j = 0 THEN g
     ELSE LET g1 == Play([g EXCEPT !.player = TakeDamage(@),
                                   !.enemies[j] = EnemyHit(@)], "player_hit")
          IN IF TakeDamageDied(g.player) THEN GameOver(g1) ELSE g1

\* Game.check_collisions
CheckCollisions(g, contacts) ==
  LET g1 == PlayerPass(BulletPass(g, 1, contacts), contacts)
  IN [g1 EXCEPT !.enemies = SelectSeq(@, LAMBDA e : e.is_alive)]

\* Game.update with the test of line 1307 also true in PAUSED: the paused
\* game goes on playing
UpdatePausedPlays(g, inp) ==
  LET g0 == [g EXCEPT !.delta_time = inp.dt, !.cues = {}, !.saved = FALSE]
  IN CASE g.state \in {"PLAYING", "PAUSED"} ->
            LET fired == PlayerFires(g.player, inp.dt, inp.space)
                g1 == [g0 EXCEPT
                         !.player = PlayerUpdate(@, inp.dt, inp.space, inp.move),
                         !.bullets = BulletsAfterUpdate(g, inp.dt, inp.space, inp.out)]
                g2 == IF fired THEN Play(g1, "shoot") ELSE g1
                g3 == CheckCollisions(g2, inp.contacts)
            IN IF g3.enemies = <<>> /\ g3.state_timer <= 0
               THEN LevelComplete(g3) ELSE g3
       [] g.state = "LEVEL_TRANSITION" ->
            LET g1 == [g0 EXCEPT !.state_timer = Elapse(@, inp.dt)]
            IN IF g1.state_timer <= 0
               THEN NewProblemAndWave([g1 EXCEPT !.state = "PLAYING"], inp.gen)
               ELSE g1
       [] g.state = "GAME_OVER" ->
            LET g1 == [g0 EXCEPT !.state_timer = Elapse(@, inp.dt),
                                 !.over_time = Min(@ + inp.dt, continue_delay)]
            IN IF g1.state_timer <= 0 /\ inp.space
               THEN [g1 EXCEPT !.state = "MENU", !.over_time = 0] ELSE g1
       [] OTHER -> g0

\* Game.update.  inp.dt is clock.get_time(), inp.space is keys[K_SPACE],
\* inp.move what the directional keys do to the player's position,
\* inp.out the bullets that leave the arena, inp.contacts the overlapping
\* rectangles, inp.gen how create_new_problem would end.
Update(g, inp) ==
  LET g0 == [g EXCEPT !.delta_time = inp.dt, !.cues = {}, !.saved = FALSE]
  IN CASE g.state = "PLAYING" ->
            LET fired == PlayerFires(g.player, inp.dt, inp.space)
                g1 == [g0 EXCEPT
                         !.player = PlayerUpdate(@, inp.dt, inp.space, inp.move),
                         !.bullets = BulletsAfterUpdate(g, inp.dt, inp.space, inp.out)]
                g2 == IF fired THEN Play(g1, "shoot") ELSE g1
                g3 == CheckCollisions(g2, inp.contacts)
            IN IF g3.enemies = <<>> /\ g3.state_timer <= 0
               THEN LevelComplete(g3) ELSE g3
       [] g.state = "LEVEL_TRANSITION" ->
            LET g1 == [g0 EXCEPT !.state_timer = Elapse(@, inp.dt)]
            IN IF g1.state_timer <= 0
               THEN NewProblemAndWave([g1 EXCEPT !.state = "PLAYING"], inp.gen)
               ELSE g1
       [] g.state = "GAME_OVER" ->
            LET g1 == [g0 EXCEPT !.state_timer = Elapse(@, inp.dt),
                                 !.over_time = Min(@ + inp.dt, continue_delay)]
            IN IF g1.state_timer <= 0 /\ inp.space
               THEN [g1 EXCEPT !.state = "MENU", !.over_time = 0] ELSE g1
       [] OTHER -> g0

(***************************************************************************)
(* State.                                                                  *)
(***************************************************************************)
VARIABLES
  \* a Problem instance and the call of Game.create_answer_buttons on it
  problem,          \* the instance (Game.current_problem)
  gen_pc,           \* position in create_answer_buttons: "strategies" (the
                    \* loop of line 562), "done" (buttons built), "raised"
  wrong_answers,    \* the local set wrong_answers of generate_wrong_answers
  answer_buttons,   \* Game.answer_buttons: (answer, is_correct) pairs
  \* the game of main()
  game,             \* the Game instance
  pc                \* position in the loop of main(): the next call is
                    \* "handle_input" or "update"

problemVars == <<problem, gen_pc, wrong_answers, answer_buttons>>
gameVars == <<game, pc>>

vars == <<problem, gen_pc, wrong_answers, answer_buttons, game, pc>>

(***************************************************************************)
(* Specification SpecProblem: Problem(difficulty) and the answer buttons.  *)
(***************************************************************************)
\* the difficulties Game.create_new_problem passes to Problem (line 1202)
Difficulties == 1..max_difficulty

\* the game part while a problem is looked at on its own
GameIdle == game = "none" /\ pc = "none"

\* Problem(difficulty) was constructed and create_answer_buttons entered
\* generate_wrong_answers(3)
ProblemInit ==
  /\ problem \in UNION {Generate(d) : d \in Difficulties}
  /\ gen_pc = "strategies"
  /\ wrong_answers = {}
  /\ answer_buttons = EmptyBag
  /\ GameIdle

\* one iteration of the loop of lines 562-570 with strategy k returning wrong
StrategyIteration(k, wrong) ==
  /\ gen_pc = "strategies"
  /\ StrategyLoopRuns(wrong_answers)
  /\ ~StrategyRaises(problem, k)
  /\ wrong \in StrategyValues(problem, k)
  /\ wrong_answers' =
       IF Acceptable(problem.correct_answer, wrong_answers, wrong)
       THEN wrong_answers \cup {wrong} ELSE wrong_answers
  /\ UNCHANGED <<problem, gen_pc, answer_buttons, gameVars>>

\* an iteration whose strategy raises ValueError: the exception leaves
\* generate_wrong_answers and create_answer_buttons
StrategyIterationRaises(k) ==
  /\ gen_pc = "strategies"
  /\ StrategyLoopRuns(wrong_answers)
  /\ StrategyRaises(problem, k)
  /\ gen_pc' = "raised"
  /\ UNCHANGED <<problem, wrong_answers, answer_buttons, gameVars>>

\* the strategy loop ends; the fallback loop of lines 573-581 runs, the
\* list is returned, and create_answer_buttons builds the buttons
FinishAnswerButtons ==
  /\ gen_pc = "strategies"
  /\ ~StrategyLoopRuns(wrong_answers)
  /\ \E result \in FallbackResults(problem.correct_answer, wrong_answers) :
       /\ wrong_answers' = result
       /\ answer_buttons' = ButtonsFor(result, problem.correct_answer)
  /\ gen_pc' = "done"
  /\ UNCHANGED <<problem, gameVars>>

ProblemNext ==
  \/ \E k \in 1..NumStrategies : \E wrong \in StrategyValues(problem, k) :
       StrategyIteration(k, wrong)
  \/ \E k \in 1..NumStrategies : StrategyIterationRaises(k)
  \/ FinishAnswerButtons

SpecProblem == ProblemInit /\ [][ProblemNext]_vars

(***************************************************************************)
(* Properties of Problem and of create_answer_buttons.                     *)
(***************************************************************************)
\* C1: for every problem Problem.generate can produce, the call of
\* generate_wrong_answers(3) terminates under a fair choice of strategies:
\* as long as the loop of line 562 runs, some iteration of it does
\* something (adds a value to wrong_answers, raises, or the loop is left).
\* A state of the loop in which no iteration can is a call that never
\* returns, whatever random.choice picks.
C1_WrongAnswersTerminate ==
  gen_pc = "strategies" => ENABLED <<ProblemNext>>_vars

\* C2: when generate_wrong_answers(3) has returned and the buttons are
\* built, the result holds exactly 3 distinct values, none of them the
\* correct answer, and there are exactly 4 answer buttons of which exactly
\* one is flagged correct.
C2_ThreeWrongOneCorrect ==
  gen_pc = "done" =>
    /\ Cardinality(wrong_answers) = 3
    /\ problem.correct_answer \notin wrong_answers
    /\ BagCardinality(answer_buttons) = 4
    /\ BagCardinality([b \in {c \in BagToSet(answer_buttons) : c.is_correct}
                         |-> CopiesIn(b, answer_buttons)]) = 1

\* a call that returned for a problem with a negative correct answer
C2_Witness ==
  /\ gen_pc = "done"
  /\ problem.correct_answer < 0
  /\ BagCardinality(answer_buttons) = 4

\* C3: for every generated problem with num1, num2 and operator, the
\* displayed text, evaluated from its operands with the standard operator
\* precedence, gives exactly correct_answer.
C3_TextEvaluatesToAnswer ==
  (HasOperands(problem) /\ problem.has_operator) =>
    V(EvalText(problem.problem_text)) = problem.correct_answer

\* C4: for every quadratic problem of tiers 13..15 the correct answer is the
\* smaller of the two roots of the equation shown, x² + bx + c = 0, that is
\* the least integer x with x² + bx + c = 0.
C4_SmallerRoot ==
  problem.family = "quadratic" =>
    LET b == problem.problem_text.a
        c == problem.problem_text.b
        roots == {x \in -5..5 : x * x + b * x + c = 0}
    IN \A x \in roots : problem.correct_answer <= V(x)

(***************************************************************************)
(* Specification SpecGame: the loop of main() on a Game instance.          *)
(***************************************************************************)
\* the problem part while the game is looked at as a whole
ProblemIdle ==
  /\ problem = "none"
  /\ gen_pc = "none"
  /\ wrong_answers = {}
  /\ answer_buttons = EmptyBag

\* Game.__init__ (load_high_score finds no file or a stored score).
\* tick_state, answer_state, cues and saved are not attributes of Game:
\* tick_state is the state when the current handle_input was entered,
\* answer_state the state when handle_answer was called in the last
\* handle_input ("none" if it was not), cues the sounds played and saved
\* whether save_high_score was called during the last call of the loop.
\* over_time is the elapsed time accumulated by the updates of the current
\* GAME_OVER, counted up to continue_delay (0 in the other states).
\* proc is the process: "running", "exited" (sys.exit), "hung" or "crashed".
GameInit ==
  /\ \E stored \in {0, StoredHighScore} : \E gen \in GenOutcomes(1) :
       game = NewProblemAndWave(
                [proc |-> "running", state |-> "MENU", tick_state |-> "MENU",
                 answer_state |-> "none", delta_time |-> 0, over_time |-> 0,
                 score |-> 0, high_score |-> stored, level |-> 1, streak |-> 0,
                 state_timer |-> 0, player |-> NewPlayer, bullets |-> <<>>,
                 enemies |-> <<>>, current_problem |-> 0,
                 cues |-> {}, saved |-> FALSE,
                 buttons |-> [menu |-> <<NewButton, NewButton>>,
                              pause |-> <<NewButton, NewButton>>],
                 pointer |-> <<0, 0>>, pressed |-> FALSE], gen)
  /\ pc = "handle_input"
  /\ ProblemIdle

\* the part of a game a specification follows: b.score, b.level and
\* b.bullets are the highest score, the highest level and the most bullets
\* in flight, b.deltas the elapsed times, b.contacts the most overlaps of
\* one collision pass and b.moves what the directional keys do
Within(g, b) ==
  g.score <= b.score /\ g.level <= b.level /\ Len(g.bullets) <= b.bullets

GameBounds ==
  [score |-> MaxScore, level |-> MaxLevel, bullets |-> MaxBullets,
   deltas |-> Deltas, contacts |-> MaxContacts, moves |-> {"none"}]

\* the buttons Game.handle_input looks at in a state
ButtonsOf(state) ==
  CASE state \in {"MENU", "PAUSED"} -> {"none", "first", "second"}
    [] state = "PLAYING" -> {"none", "correct", "wrong"}
    [] OTHER -> {"none"}

\* game.handle_input() of the main loop, for every input it can sample
HandleInputStep(b) ==
  /\ pc = "handle_input"
  /\ game.proc = "running"
  /\ \E button \in ButtonsOf(game.state) :
       \E esc \in (IF game.state = "PLAYING" THEN BOOLEAN ELSE {FALSE}) :
         \E gen \in (IF game.state = "MENU" /\ button = "first"
                     THEN GenOutcomes(1) ELSE {"ok"}) :
           LET g == HandleInput(game, [button |-> button, esc |-> esc, gen |-> gen])
           IN Within(g, b) /\ game' = g
  /\ pc' = "update"
  /\ UNCHANGED problemVars

\* the subsets of S with at most k elements
RECURSIVE SubsetsUpTo(_, _)
SubsetsUpTo(S, k) ==
  IF k = 0 THEN {{}}
  ELSE LET T == SubsetsUpTo(S, k - 1)
       IN T \cup {t \cup {x} : t \in T, x \in S}

\* the overlaps a collision pass can find: <<0, j>> player and enemy j,
\* <<i, j>> bullet i and enemy j
Contacts(bullets, enemies, max_contacts) ==
  SubsetsUpTo((0..Len(bullets)) \X (1..Len(enemies)), max_contacts)

\* game.update() of the main loop while PLAYING
UpdatePlaying(b) ==
  /\ game.state = "PLAYING"
  /\ \E dt \in b.deltas : \E space \in BOOLEAN :
       \E out \in SUBSET (1..Len(BulletsWithNew(game, dt, space))) :
         \E contacts \in Contacts(BulletsAfterUpdate(game, dt, space, out),
                                  game.enemies, b.contacts) :
           \E move \in b.moves :
             LET g == Update(game, [dt |-> dt, space |-> space, move |-> move,
                                    out |-> out, contacts |-> contacts,
                                    gen |-> "ok"])
             IN Within(g, b) /\ game' = g

\* game.update() of the main loop in the other states
UpdateWaiting(b) ==
  /\ game.state # "PLAYING"
  /\ \E dt \in b.deltas : \E space \in BOOLEAN :
       \E gen \in (IF game.state = "LEVEL_TRANSITION"
                   THEN GenOutcomes(Min(15, Max(1, game.level))) ELSE {"ok"}) :
         LET g == Update(game, [dt |-> dt, space |-> space, move |-> "none",
                                out |-> {}, contacts |-> {}, gen |-> gen])
         IN Within(g, b) /\ game' = g

UpdateStep(b) ==
  /\ pc = "update"
  /\ game.proc = "running"
  /\ \/ UpdatePlaying(b)
     \/ UpdateWaiting(b)
  /\ pc' = "handle_input"
  /\ UNCHANGED problemVars

GameNext ==
  \/ HandleInputStep(GameBounds)
  \/ UpdateStep(GameBounds)

SpecGame == GameInit /\ [][GameNext]_vars

(***************************************************************************)
(* Specification SpecSession: the same loop followed further into a        *)
(* session (more score, a second level), for a player who does not shoot   *)
(* (no bullet is ever in flight) and on one elapsed time.                  *)
(***************************************************************************)
SessionDeltas == {1000}

SessionBounds ==
  [score |-> SessionScore, level |-> SessionLevel, bullets |-> 0,
   deltas |-> SessionDeltas, contacts |-> SessionContacts, moves |-> {"none"}]

SessionNext ==
  \/ HandleInputStep(SessionBounds)
  \/ UpdateStep(SessionBounds)

SpecSession == GameInit /\ [][SessionNext]_vars

(***************************************************************************)
(* Specification SpecRestart: the same loop over several games in a row    *)
(* (game over or quit to menu, then Start Game again), for a player who    *)
(* moves about and does not shoot, up to the points of one correct answer. *)
(***************************************************************************)
RestartBounds ==
  [score |-> RestartScore, level |-> 1, bullets |-> 0,
   deltas |-> SessionDeltas, contacts |-> RestartContacts,
   moves |-> {"none", "centre", "away"}]

RestartNext ==
  \/ HandleInputStep(RestartBounds)
  \/ UpdateStep(RestartBounds)

SpecRestart == GameInit /\ [][RestartNext]_vars

(***************************************************************************)
(* Specification SpecWave: the same loop for a player who shoots, on one   *)
(* elapsed time, up to the points of a kill followed by one correct        *)
(* answer.                                                                 *)
(***************************************************************************)
WaveBounds ==
  [score |-> WaveScore, level |-> 1, bullets |-> MaxBullets,
   deltas |-> SessionDeltas, contacts |-> WaveContacts, moves |-> {"none"}]

WaveNext ==
  \/ HandleInputStep(WaveBounds)
  \/ UpdateStep(WaveBounds)

SpecWave == GameInit /\ [][WaveNext]_vars

(***************************************************************************)
(* Properties of the game loop.  A tick is one handle_input followed by    *)
(* one update; the tick boundaries are the states with pc =                *)
(* "handle_input".                                                         *)
(***************************************************************************)
\* the edges of the state diagram
ListedEdges ==
  {<<"MENU", "PLAYING">>, <<"PLAYING", "PAUSED">>, <<"PAUSED", "PLAYING">>,
   <<"PAUSED", "MENU">>, <<"PLAYING", "LEVEL_TRANSITION">>,
   <<"LEVEL_TRANSITION", "PLAYING">>, <<"PLAYING", "GAME_OVER">>,
   <<"GAME_OVER", "MENU">>}

\* the edges a Resume click followed by the update of the same tick adds
ResumeTickEdges ==
  {<<"PAUSED", "LEVEL_TRANSITION">>, <<"PAUSED", "GAME_OVER">>}

\* the state changed over the tick that just ended along one of `edges`,
\* or did not change
TickAlong(edges) ==
  pc = "handle_input" =>
    game.tick_state = game.state \/ <<game.tick_state, game.state>> \in edges

\* C5 (as stated): from one tick boundary to the next the state changes
\* only along the eight edges of the state diagram.
C5_ListedEdgesOnly == TickAlong(ListedEdges)

\* C5 (amended): from one tick boundary to the next the state changes only
\* along the eight edges of the state diagram or, over a tick that begins
\* PAUSED, to LEVEL_TRANSITION or GAME_OVER.
C5_EdgesWithResumeTick == TickAlong(ListedEdges \cup ResumeTickEdges)

\* a tick that began PAUSED and ended GAME_OVER
C5_Witness ==
  pc = "handle_input" /\ game.tick_state = "PAUSED" /\ game.state = "GAME_OVER"

\* C6: handle_answer is called only while the state is PLAYING at the
\* moment of the call, whatever inputs handle_input samples.
C6_AnswerOnlyWhilePlaying == game.answer_state \in {"none", "PLAYING"}

\* the step is a handle_input in which handle_answer ran on the correct
\* (on an incorrect) answer button
CorrectAnswerStep == pc = "handle_input" /\ "correct" \in game'.cues
IncorrectAnswerStep == pc = "handle_input" /\ "incorrect" \in game'.cues

\* the step is the click on Start Game
StartStep == pc = "handle_input" /\ game.state = "MENU" /\ game'.state = "PLAYING"

AliveEnemies(g) == Cardinality({i \in 1..Len(g.enemies) : g.enemies[i].is_alive})

\* C7: a correct answer at level L with streak s and n alive enemies adds
\* 50 L + (25 (s + 1) if s + 1 > 1) + 5 L n to the score, makes the streak
\* s + 1 and empties the enemy list; for s = 2 the level becomes L + 1.
C7_CorrectAnswerReward ==
  [][CorrectAnswerStep =>
       LET L == game.level
           s == game.streak
           n == AliveEnemies(game)
       IN /\ game'.score = game.score + 50 * L
                             + (IF s + 1 > 1 THEN 25 * (s + 1) ELSE 0) + 5 * L * n
          /\ game'.streak = s + 1
          /\ game'.enemies = <<>>
          /\ (s = 2 => game'.level = L + 1)]_vars

\* the third correct answer in a row, each given with three enemies alive
C7_Witness ==
  /\ pc = "update"
  /\ "correct" \in game.cues
  /\ game.streak = 3
  /\ game.score = 320
  /\ game.enemies = <<>>

\* C8: the level goes up by one exactly when a correct answer brings the
\* streak to a multiple of 3; the start of a game sets it to 1; nothing
\* else changes it, so it never goes down during a session.
C8_LevelRule ==
  [][IF StartStep THEN game'.level = 1
     ELSE IF CorrectAnswerStep /\ game'.streak % 3 = 0
          THEN game'.level = game.level + 1
          ELSE game'.level = game.level]_vars

\* a game that has just reached level 2
C8_Witness ==
  pc = "update" /\ "level_up" \in game.cues /\ game.level = 2

\* C9: an incorrect answer resets the streak and leaves score, level,
\* player health and high score as they were; an incorrect answer and a
\* correct one both enter LEVEL_TRANSITION with the 0.8 s timer.
C9_AnswerEntersTransition ==
  [][/\ IncorrectAnswerStep =>
          /\ game'.streak = 0
          /\ game'.score = game.score
          /\ game'.level = game.level
          /\ game'.player.health = game.player.health
          /\ game'.high_score = game.high_score
     /\ (IncorrectAnswerStep \/ CorrectAnswerStep) =>
          /\ game'.state = "LEVEL_TRANSITION"
          /\ game'.state_timer = 800]_vars

\* an incorrect answer after a correct one
C9_Witness ==
  /\ pc = "update"
  /\ "incorrect" \in game.cues
  /\ game.score > 0
  /\ game.streak = 0
  /\ game.state = "LEVEL_TRANSITION"

\* the step is an update whose collision pass finds the player, with
\* health 1 and not invulnerable when the pass runs, on an alive enemy
LastHitStep ==
  /\ pc = "update"
  /\ game.state = "PLAYING"
  /\ game.player.health = 1
  /\ ~game.player.invulnerable \/ game.player.invulnerable_time <= game'.delta_time
  /\ "player_hit" \in game'.cues

\* C10: such a hit brings health to 0, the tick ends in GAME_OVER (also
\* when the hit removed the last enemy), and the high score is written
\* exactly when the score is above the previous high score.
C10_LastHitEndsGame ==
  [][LastHitStep =>
       /\ game'.player.health = 0
       /\ game'.state = "GAME_OVER"
       /\ game'.saved <=> game'.score > game.high_score
       /\ game'.high_score = Max(game.high_score, game'.score)]_vars

\* the hit that ended the game removed the last enemy
C10_Witness ==
  /\ pc = "handle_input"
  /\ game.state = "GAME_OVER"
  /\ "player_hit" \in game.cues
  /\ game.player.health = 0
  /\ game.enemies = <<>>

\* C11: nothing but update leaves GAME_OVER, and it does so only to MENU
\* and only in a tick by which the elapsed times of the updates in
\* GAME_OVER add up to 3.0 s or more; from then on an update with the
\* continue input (SPACE) held gives MENU.
C11_ContinueAfterDelay ==
  [][game.state = "GAME_OVER" =>
       /\ pc = "handle_input" => game'.state = "GAME_OVER"
       /\ pc = "update" =>
            /\ game'.state \in {"GAME_OVER", "MENU"}
            /\ game'.state = "MENU" =>
                 game.over_time + game'.delta_time >= continue_delay
            /\ \A dt \in Deltas :
                 game.over_time + dt >= continue_delay =>
                   Update(game, [dt |-> dt, space |-> TRUE, move |-> "none",
                                 out |-> {}, contacts |-> {},
                                 gen |-> "ok"]).state = "MENU"]_vars

\* the continue input was honoured: the tick began GAME_OVER and ended MENU
C11_Witness ==
  pc = "handle_input" /\ game.tick_state = "GAME_OVER" /\ game.state = "MENU"

\* C12: Start Game, whatever came before, gives PLAYING with score 0,
\* level 1, streak 0, a new player (health 3, not invulnerable, at the
\* centre), no bullets, a problem of tier 1 and a new wave of alive enemies.
C12_StartResetsSession ==
  [][StartStep =>
       /\ game'.proc = "running"
       /\ game'.state = "PLAYING"
       /\ game'.score = 0 /\ game'.level = 1 /\ game'.streak = 0
       /\ game'.player.health = 3
       /\ ~game'.player.invulnerable
       /\ game'.player.pos = "centre"
       /\ game'.player.shoot_timer = 0
       /\ game'.bullets = <<>>
       /\ game'.current_problem = 1
       /\ Len(game'.enemies) = 3
       /\ \A i \in 1..Len(game'.enemies) :
            game'.enemies[i] = NewEnemy(1)]_vars

\* a start after a session that ended with a new high score
C12_Witness ==
  /\ pc = "update"
  /\ game.tick_state = "MENU"
  /\ game.state = "PLAYING"
  /\ game.high_score > StoredHighScore
  /\ game.score = 0

\* C13: the high score never goes down, and whenever the state is MENU or
\* GAME_OVER it is at least the score.
C13_HighScoreKept ==
  [][/\ game'.high_score >= game.high_score
     /\ game.state \in {"MENU", "GAME_OVER"} => game.high_score >= game.score
     /\ game'.state \in {"MENU", "GAME_OVER"} =>
          game'.high_score >= game'.score]_vars

\* a quit to menu from PAUSED that raised the high score to the score
C13_Witness ==
  /\ pc = "update"
  /\ game.tick_state = "PAUSED"
  /\ game.state = "MENU"
  /\ game.saved
  /\ game.high_score = game.score
  /\ game.score > StoredHighScore

\* the step is the update in which the LEVEL_TRANSITION timer runs out
TransitionEndStep ==
  /\ pc = "update"
  /\ game.state = "LEVEL_TRANSITION"
  /\ game.state_timer <= game'.delta_time

\* C14: the update in which the LEVEL_TRANSITION timer reaches 0 returns
\* with the state PLAYING, a new problem of tier min(15, max(1, level)) and
\* a new wave of exactly min(3 + level // 2, 10) alive enemies.
C14_TransitionResumesPlay ==
  [][TransitionEndStep =>
       /\ game'.proc = "running"
       /\ game'.state = "PLAYING"
       /\ game'.current_problem = Min(15, Max(1, game.level))
       /\ Len(game'.enemies) = Min(3 + game.level \div 2, 10)
       /\ \A i \in 1..Len(game'.enemies) : game'.enemies[i].is_alive]_vars

\* C15: a PLAYING update that ends with no enemy left and the player alive
\* ends in LEVEL_TRANSITION with the 1.0 s timer; after a correct answer
\* the state is LEVEL_TRANSITION with the 0.8 s timer, and the update of
\* the same tick only runs that timer down (resuming play when it is out):
\* it never sets the 1.0 s one.
C15_WaveClearedDelay ==
  [][/\ (pc = "update" /\ game.state = "PLAYING"
           /\ game'.enemies = <<>> /\ game'.player.health > 0) =>
          (game'.state = "LEVEL_TRANSITION" /\ game'.state_timer = 1000)
     /\ CorrectAnswerStep =>
          (game'.state = "LEVEL_TRANSITION" /\ game'.state_timer = 800)
     /\ (pc = "update" /\ "correct" \in game.cues) =>
          /\ game'.state_timer = Max(800 - game'.delta_time, 0)
          /\ game'.state = IF game'.delta_time >= 800
                            THEN "PLAYING" ELSE "LEVEL_TRANSITION"]_vars

\* the last enemy of a wave was shot, after an earlier correct answer
C15_Witness ==
  /\ pc = "handle_input"
  /\ game.tick_state = "PLAYING"
  /\ game.state = "LEVEL_TRANSITION"
  /\ game.state_timer = 1000
  /\ "enemy_explode" \in game.cues
  /\ game.streak = 1

(***************************************************************************)
(* Specification SpecConstruct: the call Problem(difficulty) for any       *)
(* integer difficulty.                                                     *)
(***************************************************************************)
\* the arguments tried
ArgDifficulties == (1 - Below)..(max_difficulty + Above)

\* nothing was constructed yet
ConstructInit ==
  /\ problem = "none"
  /\ gen_pc = "new"
  /\ wrong_answers = {}
  /\ answer_buttons = EmptyBag
  /\ GameIdle

\* Problem.__init__ returns an instance
Construct(d) ==
  /\ gen_pc = "new"
  /\ problem' \in Generate(d)
  /\ gen_pc' = "constructed"
  /\ UNCHANGED <<wrong_answers, answer_buttons, gameVars>>

\* Problem.__init__ raises: random.randint(1, max_num) of line 277 has an
\* empty range (ValueError), so generate produces nothing
ConstructRaises(d) ==
  /\ gen_pc = "new"
  /\ Generate(d) = {}
  /\ gen_pc' = "raised"
  /\ UNCHANGED <<problem, wrong_answers, answer_buttons, gameVars>>

(***************************************************************************)
(* The two other Problem classes of the repository: the one of             *)
(* pygame_o2(retro).py and the second one of enhanced-math-game(1).py.     *)
(***************************************************************************)
\* Problem.calculate_answer of pygame_o2(retro).py
RetroCalculateAnswer(op, num1, num2) ==
  IF op = "+" THEN num1 + num2
  ELSE IF op = "-" THEN num1 - num2
  ELSE num1 * num2

\* Problem.generate of pygame_o2(retro).py: every problem it can produce
RetroGenerate(difficulty) ==
  LET max_num == 10 * difficulty
      operators == IF difficulty > 1 THEN {"+", "-", "*"} ELSE {"+"}
  IN {[implementation |-> "retro", difficulty |-> difficulty,
       num1 |-> a, num2 |-> b, operator |-> op,
       correct_answer |-> RetroCalculateAnswer(op, a, b)]
      : a \in Rand(1, max_num), b \in Rand(1, max_num), op \in operators}

\* the second Problem.calculate_answer of enhanced-math-game(1).py
SecondCalculateAnswer(op, num1, num2) ==
  IF op = "+" THEN num1 + num2
  ELSE IF op = "-" THEN num1 - num2
  ELSE num1 * num2

\* the second Problem.generate of enhanced-math-game(1).py
SecondGenerate(difficulty) ==
  LET max_num == 10 * difficulty
      operators == IF difficulty > 1 THEN {"+", "-", "*"} ELSE {"+"}
  IN {[implementation |-> "second", difficulty |-> difficulty,
       num1 |-> a, num2 |-> b, operator |-> op,
       correct_answer |-> SecondCalculateAnswer(op, a, b)]
      : a \in Rand(1, max_num), b \in Rand(1, max_num), op \in operators}

\* Problem(d) of one of these classes: an instance, or ValueError from
\* random.randint(1, max_num)
ConstructOther(generated) ==
  /\ gen_pc = "new"
  /\ IF generated = {}
     THEN gen_pc' = "other_raised" /\ UNCHANGED problem
     ELSE gen_pc' = "other_constructed" /\ problem' \in generated
  /\ UNCHANGED <<wrong_answers, answer_buttons, gameVars>>

ConstructNext ==
  \/ \E d \in ArgDifficulties : Construct(d)
  \/ \E d \in ArgDifficulties : ConstructRaises(d)
  \/ \E d \in ArgDifficulties : ConstructOther(RetroGenerate(d))
  \/ \E d \in ArgDifficulties : ConstructOther(SecondGenerate(d))

SpecConstruct == ConstructInit /\ [][ConstructNext]_vars

\* the kinds of problem the specification gives to a tier
TierFamilies(tier) ==
  IF tier <= 3 THEN {"basic"}
  ELSE IF tier <= 6 THEN {"intermediate"}
  ELSE IF tier <= 9 THEN {"square", "sqrt", "cube", "power", "mixed"}
  ELSE IF tier <= 12 THEN {"linear", "system"}
  ELSE {"sin", "cos", "quadratic", "square_geo", "circle", "triangle",
        "rectangle", "logexp"}

\* C16: for every integer difficulty, below 1 and above 15 included,
\* Problem(difficulty) does not raise and produces a problem of the family
\* of the difficulty clamped to 1..15.
C16_TierClamped ==
  /\ gen_pc # "raised"
  /\ gen_pc = "constructed" =>
       problem.family \in TierFamilies(Min(15, Max(1, problem.difficulty)))

\* C17: every problem generated at tier 1 has the operator '+', in each of
\* the three Problem classes of the repository.
C17_TierOneAdds ==
  (gen_pc \in {"constructed", "other_constructed"} /\ problem.difficulty = 1)
    => problem.operator = "+"

\* a tier-1 problem of the main class with the largest operands
C17_Witness ==
  /\ gen_pc = "constructed"
  /\ problem.difficulty = 1
  /\ problem.operator = "+"
  /\ problem.num1 = 10
  /\ problem.num2 = 10

\* C18: every division problem of the difficulties 4..6 has num2 >= 2 and
\* num1 % num2 = 0, and its correct answer is the integer num1 // num2.
C18_DivisionExact ==
  (/\ gen_pc = "constructed"
   /\ problem.difficulty \in 4..6
   /\ problem.operator = "/") =>
    /\ problem.num2 >= 2
    /\ problem.num1 % problem.num2 = 0
    /\ problem.correct_answer = V(problem.num1 \div problem.num2)
    /\ ~problem.is_float

\* the division 200 / 20 of difficulty 5
C18_Witness ==
  /\ gen_pc = "constructed"
  /\ problem.difficulty = 5
  /\ problem.operator = "/"
  /\ problem.num1 = 200
  /\ problem.num2 = 20
  /\ problem.correct_answer = V(10)

\* C19: every correct answer of the difficulties 1..15 is an integer or has
\* at most 2 decimal places (is a multiple of 0.01), the answers of the
\* trigonometry tables and of the circle problems included.
C19_TwoDecimals ==
  (gen_pc = "constructed" /\ problem.difficulty \in 1..max_difficulty)
    => problem.correct_answer % (Scale \div 100) = 0

\* C20: every value generate_wrong_answers(3) returns has
\* |wrong - correct| <= max(10, 2 * |correct|) and |wrong| <= 5 * |correct|.
C20_WrongAnswersClose ==
  gen_pc = "done" =>
    \A wrong \in wrong_answers :
      /\ Abs(wrong - problem.correct_answer)
           <= Max(V(10), 2 * Abs(problem.correct_answer))
      /\ Abs(wrong) <= 5 * Abs(problem.correct_answer)

\* the answer 0.5 returned with the wrong answer 2.5, five times as large
C20_Witness ==
  /\ gen_pc = "done"
  /\ problem.correct_answer = 500
  /\ 2500 \in wrong_answers
  /\ Cardinality(wrong_answers) = Count

(***************************************************************************)
(* Specification SpecArena: the positions.  One moving object is followed  *)
(* for a few ticks: the Player of enhanced-math-game(1).py, the player     *)
(* position of pygame_o2(retro).py, or an Enemy.  Coordinates are in       *)
(* ten-thousandths of a pixel (PosScale), which holds the step             *)
(* 0.7071 * PLAYER_SPEED of a diagonal move exactly.                       *)
(***************************************************************************)
\* clamp(value, min_val, max_val) of line 66
Clamp(value, min_val, max_val) == Max(min_val, Min(value, max_val))

\* pygame.key.get_pressed() as far as the directional keys go (LEFT or a,
\* RIGHT or d, UP or w, DOWN or s)
DirectionKeys == [left : BOOLEAN, right : BOOLEAN, up : BOOLEAN, down : BOOLEAN]

\* Player.__init__ called with (x, y): the player with its position, in
\* ten-thousandths, and its direction
PlayerAt(x, y) ==
  [health |-> 3, invulnerable |-> FALSE, invulnerable_time |-> 0, shoot_timer |-> 0,
   pos |-> IF x = (WINDOW_WIDTH \div 2) * PosScale /\ y = (WINDOW_HEIGHT \div 2) * PosScale
           THEN "centre" ELSE "away",
   x |-> x, y |-> y, direction |-> <<0, -PosScale>>]

\* the movement of Player.update without the clamp of lines 868-869
PlayerMoveNoClamp(player, keys) ==
  LET dx0 == (IF keys.right THEN 1 ELSE 0) - (IF keys.left THEN 1 ELSE 0)
      dy0 == (IF keys.down THEN 1 ELSE 0) - (IF keys.up THEN 1 ELSE 0)
      diagonal == dx0 # 0 /\ dy0 # 0
      dx == IF diagonal THEN dx0 * 7071 ELSE dx0 * PosScale
      dy == IF diagonal THEN dy0 * 7071 ELSE dy0 * PosScale
      direction == IF diagonal THEN <<dx, dy>>
                   ELSE IF keys.down THEN <<0, PosScale>>
                   ELSE IF keys.up THEN <<0, -PosScale>>
                   ELSE IF keys.right THEN <<PosScale, 0>>
                   ELSE IF keys.left THEN <<-PosScale, 0>>
                   ELSE player.direction
  IN [player EXCEPT !.x = player.x + dx * PLAYER_SPEED,
                    !.y = player.y + dy * PLAYER_SPEED,
                    !.direction = direction]

\* the movement of Player.update (lines 829-869): position and direction
PlayerMove(player, keys) ==
  LET dx0 == (IF keys.right THEN 1 ELSE 0) - (IF keys.left THEN 1 ELSE 0)
      dy0 == (IF keys.down THEN 1 ELSE 0) - (IF keys.up THEN 1 ELSE 0)
      diagonal == dx0 # 0 /\ dy0 # 0
      dx == IF diagonal THEN dx0 * 7071 ELSE dx0 * PosScale
      dy == IF diagonal THEN dy0 * 7071 ELSE dy0 * PosScale
      direction == IF diagonal THEN <<dx, dy>>
                   ELSE IF keys.down THEN <<0, PosScale>>
                   ELSE IF keys.up THEN <<0, -PosScale>>
                   ELSE IF keys.right THEN <<PosScale, 0>>
                   ELSE IF keys.left THEN <<-PosScale, 0>>
                   ELSE player.direction
  IN [player EXCEPT
        !.x = Clamp(player.x + dx * PLAYER_SPEED, player_size * PosScale,
                    (WINDOW_WIDTH - player_size) * PosScale),
        !.y = Clamp(player.y + dy * PLAYER_SPEED, player_size * PosScale,
                    (WINDOW_HEIGHT - player_size) * PosScale),
        !.direction = direction]

\* the player movement of Game.update of pygame_o2(retro).py (lines 436-451)
RetroMove(player_pos, keys) ==
  LET x1 == IF keys.left
            THEN Max(20 * PosScale, player_pos[1] - RETRO_PLAYER_SPEED * PosScale)
            ELSE player_pos[1]
      x2 == IF keys.right
            THEN Min((RETRO_WINDOW_WIDTH - 20) * PosScale,
                     x1 + RETRO_PLAYER_SPEED * PosScale)
            ELSE x1
      y1 == IF keys.up
            THEN Max(20 * PosScale, player_pos[2] - RETRO_PLAYER_SPEED * PosScale)
            ELSE player_pos[2]
      y2 == IF keys.down
            THEN Min((RETRO_WINDOW_HEIGHT - 20) * PosScale,
                     y1 + RETRO_PLAYER_SPEED * PosScale)
            ELSE y1
  IN <<x2, y2>>

\* the coordinates a followed object starts at: the ends of lo..hi and mid
Starts(lo, hi, mid) == {v * PosScale : v \in Ends(lo, hi, StartSpan) \cup {mid}}

\* a Player anywhere inside the arena (Game constructs it at the centre)
ArenaPlayerInit ==
  \E x \in Starts(player_size, WINDOW_WIDTH - player_size, WINDOW_WIDTH \div 2) :
    \E y \in Starts(player_size, WINDOW_HEIGHT - player_size, WINDOW_HEIGHT \div 2) :
      game = [entity |-> "player", ticks |-> 0, player |-> PlayerAt(x, y),
              fired |-> FALSE, space |-> FALSE, delta_time |-> 0,
              shots |-> 0, since_shot |-> 0]

\* the player position of pygame_o2(retro).py anywhere inside its arena
ArenaRetroInit ==
  \E x \in Starts(20, RETRO_WINDOW_WIDTH - 20, RETRO_WINDOW_WIDTH \div 2) :
    \E y \in Starts(20, RETRO_WINDOW_HEIGHT - 20, RETRO_WINDOW_HEIGHT \div 2) :
      game = [entity |-> "retro", ticks |-> 0, player_pos |-> <<x, y>>]

\* the elapsed times of the ticks of specification SpecArena, in ms
ArenaDeltas == {100, 200}

\* one Player.update: the movement, then the timers and the shot.  fired,
\* space, delta_time, shots and since_shot are not attributes: fired tells
\* whether this update returned a Bullet, space and delta_time are its
\* inputs, shots counts the bullets returned so far and since_shot is the
\* elapsed time accumulated since the last of them.
ArenaPlayerUpdate(keys, dt, space) ==
  /\ pc = "arena"
  /\ game.entity = "player"
  /\ game.ticks < ArenaTicks
  /\ LET moved == PlayerMove(game.player, keys)
         move == IF moved.x = game.player.x /\ moved.y = game.player.y THEN "none"
                 ELSE PlayerAt(moved.x, moved.y).pos
         timed == PlayerUpdate(game.player, dt, space, move)
         fired == PlayerFires(game.player, dt, space)
     IN game' = [game EXCEPT !.ticks = @ + 1,
                             !.player = [timed EXCEPT !.x = moved.x, !.y = moved.y,
                                                      !.direction = moved.direction,
                                                      !.pos = PlayerAt(moved.x, moved.y).pos],
                             !.fired = fired, !.space = space, !.delta_time = dt,
                             !.shots = IF fired THEN @ + 1 ELSE @,
                             !.since_shot = IF fired THEN 0 ELSE @ + dt]
  /\ UNCHANGED <<problemVars, pc>>

\* one player movement of pygame_o2(retro).py
ArenaRetroUpdate(keys) ==
  /\ pc = "arena"
  /\ game.entity = "retro"
  /\ game.ticks < ArenaTicks
  /\ game' = [game EXCEPT !.ticks = @ + 1,
                          !.player_pos = RetroMove(@, keys)]
  /\ UNCHANGED <<problemVars, pc>>

(***************************************************************************)
(* class Enemy with its position.  An angle is a multiple of pi/8 (0..15); *)
(* cosines and sines are in ten-thousandths, speeds in hundredths of a     *)
(* pixel per tick.                                                         *)
(***************************************************************************)
\* math.cos and math.sin of the angle k * pi/8
Cos16(k) ==
  LET q == k % 16
      table == <<10000, 9239, 7071, 3827, 0>>
  IN IF q <= 4 THEN table[q + 1]
     ELSE IF q <= 8 THEN -table[(8 - q) + 1]
     ELSE IF q <= 12 THEN -table[(q - 8) + 1]
     ELSE table[(16 - q) + 1]
Sin16(k) == Cos16(k + 12)

\* Enemy.__init__: speed by difficulty band (ENEMY_SPEED_BASE * 0.8, 1.2, 1.5)
EnemySpeed(difficulty) ==
  IF difficulty <= 3 THEN 120 ELSE IF difficulty <= 8 THEN 180 ELSE 225

MovementTypes == {"linear", "sinusoidal", "circular", "accelerating"}

\* Enemy(x, y, difficulty) with the movement type and the direction drawn.
\* raw_x and heading are not attributes of Enemy: raw_x is x after the move
\* of the last update and before its boundary check, heading the direction
\* that move used.
EnemyAt(x, y, difficulty, movement_type, direction) ==
  [health |-> EnemyHealth(difficulty), is_alive |-> TRUE,
   x |-> x, y |-> y, center_x |-> x, center_y |-> y,
   speed |-> EnemySpeed(difficulty), movement_type |-> movement_type,
   direction |-> direction, raw_x |-> x, heading |-> direction]

\* what one Enemy.update of an enemy of this movement type draws or
\* computes from movement_timer: the turn of a linear enemy (0 when
\* random.random() >= 0.01, else up to pi/4 either way), wave =
\* sin(movement_timer * 2) * 2 in pixels, the angle phase of movement_timer,
\* and ease_out_quad(cycle_progress) in hundredths; what the type does not
\* read is 0
EnemyInputs(movement_type) ==
  [turn : IF movement_type = "linear" THEN {-2, 0, 2} ELSE {0},
   wave : IF movement_type = "sinusoidal" THEN {-2, 0, 2} ELSE {0},
   phase : IF movement_type = "circular" THEN {0, 1, 4, 8, 12} ELSE {0},
   factor : IF movement_type = "accelerating" THEN {0, 75, 100} ELSE {0}]

\* the move of Enemy.update (lines 636-667): <<x, y, direction>>
EnemyStep(e, inp) ==
  CASE e.movement_type = "linear" ->
         LET d == (e.direction + inp.turn) % 16
         IN <<e.x + (Cos16(d) * e.speed) \div 100,
              e.y + (Sin16(d) * e.speed) \div 100, d>>
    [] e.movement_type = "sinusoidal" ->
         <<e.x + (Cos16(e.direction) * e.speed) \div 100,
           e.y + (Sin16(e.direction) * e.speed) \div 100 + inp.wave * PosScale,
           e.direction>>
    [] e.movement_type = "circular" ->
         <<e.center_x + Cos16(inp.phase) * 50,
           e.center_y + Sin16(inp.phase) * 50, e.direction>>
    [] OTHER ->
         <<e.x + (((Cos16(e.direction) * e.speed) \div 100) * inp.factor * 15) \div 1000,
           e.y + (((Sin16(e.direction) * e.speed) \div 100) * inp.factor * 15) \div 1000,
           e.direction>>

\* Enemy.update without the two assignments of lines 673-674
EnemyUpdateNoRightWall(e, inp) ==
  IF ~e.is_alive THEN e
  ELSE LET s == EnemyStep(e, inp)
           lo == enemy_size * PosScale
           hix == (WINDOW_WIDTH - enemy_size) * PosScale
           hiy == (WINDOW_HEIGHT - enemy_size) * PosScale
           x1 == IF s[1] < lo THEN lo ELSE s[1]
           d1 == IF s[1] < lo THEN (8 - s[3]) % 16 ELSE s[3]
           y1 == IF s[2] < lo THEN lo ELSE IF s[2] > hiy THEN hiy ELSE s[2]
           d2 == IF s[2] < lo \/ s[2] > hiy THEN (16 - d1) % 16 ELSE d1
       IN [e EXCEPT !.x = x1, !.y = y1, !.direction = d2,
                    !.raw_x = s[1], !.heading = s[3]]

\* Enemy.update (lines 628-680); pi - direction is the angle 8 - k
EnemyUpdate(e, inp) ==
  IF ~e.is_alive THEN e
  ELSE LET s == EnemyStep(e, inp)
           lo == enemy_size * PosScale
           hix == (WINDOW_WIDTH - enemy_size) * PosScale
           hiy == (WINDOW_HEIGHT - enemy_size) * PosScale
           x1 == IF s[1] < lo THEN lo ELSE IF s[1] > hix THEN hix ELSE s[1]
           d1 == IF s[1] < lo \/ s[1] > hix THEN (8 - s[3]) % 16 ELSE s[3]
           y1 == IF s[2] < lo THEN lo ELSE IF s[2] > hiy THEN hiy ELSE s[2]
           d2 == IF s[2] < lo \/ s[2] > hiy THEN (16 - d1) % 16 ELSE d1
       IN [e EXCEPT !.x = x1, !.y = y1, !.direction = d2,
                    !.raw_x = s[1], !.heading = s[3]]

\* an Enemy of any movement type, with a direction out of eight.  A circular
\* enemy is where spawn_enemies placed it (lines 1242-1243); the others are
\* anywhere inside the arena, where their moves take them from the place of
\* spawning (center_x, center_y), which only the circular pattern reads.
ArenaEnemyInit ==
  \E difficulty \in {1, 4, 9} : \E movement_type \in MovementTypes : \E k \in 0..7 :
    IF movement_type = "circular"
    THEN \E x \in Starts(50, WINDOW_WIDTH - 50, WINDOW_WIDTH \div 2) :
           \E y \in Starts(50, WINDOW_HEIGHT - 180, WINDOW_HEIGHT \div 2) :
             game = [entity |-> "enemy", ticks |-> 0,
                     enemy |-> EnemyAt(x, y, difficulty, movement_type, 2 * k + 1)]
    ELSE \E x \in Starts(enemy_size, WINDOW_WIDTH - enemy_size, WINDOW_WIDTH \div 2) :
           \E y \in Starts(enemy_size, WINDOW_HEIGHT - enemy_size, WINDOW_HEIGHT \div 2) :
             game = [entity |-> "enemy", ticks |-> 0,
                     enemy |-> [EnemyAt(x, y, difficulty, movement_type, 2 * k + 1)
                                  EXCEPT !.center_x = Clamp(x, 50 * PosScale,
                                                            (WINDOW_WIDTH - 50) * PosScale),
                                         !.center_y = Clamp(y, 50 * PosScale,
                                                            (WINDOW_HEIGHT - 180) * PosScale)]]

\* one Enemy.update
ArenaEnemyUpdate(inp) ==
  /\ pc = "arena"
  /\ game.entity = "enemy"
  /\ game.ticks < ArenaTicks
  /\ inp \in EnemyInputs(game.enemy.movement_type)
  /\ game' = [game EXCEPT !.ticks = @ + 1, !.enemy = EnemyUpdate(@, inp)]
  /\ UNCHANGED <<problemVars, pc>>

ArenaInit ==
  /\ ArenaPlayerInit \/ ArenaRetroInit \/ ArenaEnemyInit
  /\ pc = "arena"
  /\ ProblemIdle

ArenaNext ==
  \/ \E keys \in DirectionKeys : \E dt \in ArenaDeltas : \E space \in BOOLEAN :
       ArenaPlayerUpdate(keys, dt, space)
  \/ \E keys \in DirectionKeys : ArenaRetroUpdate(keys)
  \/ \E movement_type \in MovementTypes : \E inp \in EnemyInputs(movement_type) :
       ArenaEnemyUpdate(inp)

SpecArena == ArenaInit /\ [][ArenaNext]_vars

\* the point (x, y) is at least size away from every wall of a w by h arena
InArena(x, y, size, w, h) ==
  /\ size * PosScale <= x /\ x <= (w - size) * PosScale
  /\ size * PosScale <= y /\ y <= (h - size) * PosScale

\* C21: after every Player.update, whatever directional keys are held and
\* wherever inside the arena the player started, the position is within
\* [size, WINDOW_WIDTH - size] x [size, WINDOW_HEIGHT - size]; the same for
\* the player position of pygame_o2(retro).py.
C21_PlayerInArena ==
  /\ game.entity = "player" =>
       InArena(game.player.x, game.player.y, player_size, WINDOW_WIDTH, WINDOW_HEIGHT)
  /\ game.entity = "retro" =>
       InArena(game.player_pos[1], game.player_pos[2], 20,
               RETRO_WINDOW_WIDTH, RETRO_WINDOW_HEIGHT)

\* a player at the right wall was sent further right and stayed at the wall
C21_Witness ==
  /\ game.entity = "player"
  /\ game.ticks = 1
  /\ game.player.x = (WINDOW_WIDTH - player_size) * PosScale
  /\ game.player.direction = <<PosScale, 0>>

\* a step of specification SpecArena that is an Enemy.update
EnemyUpdateStep ==
  pc = "arena" /\ game.entity = "enemy" /\ game'.ticks = game.ticks + 1

\* the move of the enemy's last update took x beyond the right boundary
HitRight(e) == e.raw_x > (WINDOW_WIDTH - enemy_size) * PosScale

\* C22: after every Enemy.update of an alive enemy, for each movement
\* pattern, the position is within [size, WINDOW_WIDTH - size] x
\* [size, WINDOW_HEIGHT - size]; when the move took x beyond the right
\* boundary, x is exactly WINDOW_WIDTH - size and the horizontal component
\* of the heading is mirrored, and the move of the next tick does not take
\* the enemy into that boundary again.
C22_EnemyBounce ==
  [][EnemyUpdateStep =>
       /\ InArena(game'.enemy.x, game'.enemy.y, enemy_size, WINDOW_WIDTH, WINDOW_HEIGHT)
       /\ HitRight(game'.enemy) =>
            /\ game'.enemy.x = (WINDOW_WIDTH - enemy_size) * PosScale
            /\ Cos16(game'.enemy.direction) = -Cos16(game'.enemy.heading)
       /\ HitRight(game.enemy) => ~HitRight(game'.enemy)]_vars

ContactStep == pc = "update" /\ game.state = "PLAYING" /\ "player_hit" \in game'.cues

\* the player is invulnerable when the collision pass of the update with
\* elapsed time dt runs, that is after the Player.update of that tick
InvulnerableAfter(player, dt) ==
  player.invulnerable /\ player.invulnerable_time - dt > 0

\* the sum of the health of the enemies of a list
RECURSIVE HealthSum(_)
HealthSum(enemies) ==
  IF enemies = <<>> THEN 0 ELSE Head(enemies).health + HealthSum(Tail(enemies))

\* C24: a player-enemy contact lowers the player's health by 1 only if the
\* player is not invulnerable; a hit starts an invulnerability of 2.0 s,
\* during which no contact lowers the health; every processed contact
\* lowers the health of the contacted enemy by 1, invulnerable or not.
C24_ContactDamage ==
  [][/\ ContactStep =>
          /\ game'.player.health =
               IF InvulnerableAfter(game.player, game'.delta_time)
               THEN game.player.health ELSE game.player.health - 1
          /\ HealthSum(SelectSeq(game'.enemies, LAMBDA e : e.is_alive))
               = HealthSum(game.enemies) - 1
     /\ (pc = "update" /\ game'.player.health < game.player.health) =>
          /\ ContactStep
          /\ game'.player.invulnerable
          /\ game'.player.invulnerable_time = 2000
     /\ (pc = "update" /\ game.player.invulnerable
           /\ game.player.invulnerable_time > game'.delta_time) =>
          game'.player.health >= game.player.health]_vars

\* after a contact during the invulnerability: the second enemy is gone, the
\* health is still the 2 left by the first hit, 1.0 s of the window remains
C24_Witness ==
  /\ pc = "handle_input"
  /\ game.state = "PLAYING"
  /\ "player_hit" \in game.cues
  /\ game.player.health = 2
  /\ game.player.invulnerable
  /\ game.player.invulnerable_time = 1000
  /\ Len(game.enemies) = 1

\* C25: the player's health is always in 0..3; it never exceeds 3, never
\* goes below 0, and no step of a tick lowers it by more than 1 (only the
\* update of a tick lowers it at all).
C25_HealthRange ==
  [][/\ game.player.health \in 0..3
     /\ game'.player.health \in 0..3
     /\ game'.player.health >= game.player.health - 1
     /\ pc = "handle_input" => game'.player.health >= game.player.health]_vars

\* the third hit: the health reached 0 in the update that ended the game
C25_Witness ==
  /\ pc = "handle_input"
  /\ game.state = "GAME_OVER"
  /\ game.player.health = 0
  /\ "game_over" \in game.cues

\* a step of specification SpecArena that is a Player.update
PlayerUpdateStep ==
  pc = "arena" /\ game.entity = "player" /\ game'.ticks = game.ticks + 1

\* C26: Player.update emits a bullet (at most one: its return value) only
\* when the fire input is held and the cooldown, after the elapsed time of
\* the tick, is <= 0; an emission sets the cooldown to 0.2 s, and two
\* emissions are at least 0.2 s of accumulated tick time apart.
C26_ShotCooldown ==
  [][(PlayerUpdateStep /\ game'.fired) =>
       /\ game'.space
       /\ game.player.shoot_timer - game'.delta_time <= 0
       /\ game'.player.shoot_timer = shoot_delay
       /\ game'.shots = game.shots + 1
       /\ game.shots > 0 => game.since_shot + game'.delta_time >= shoot_delay]_vars

\* the second shot, in the tick that ends 0.2 s after the first
C26_Witness ==
  /\ game.entity = "player"
  /\ game.ticks = 2
  /\ game.shots = 2
  /\ game.fired
  /\ game.delta_time = 200
  /\ game.since_shot = 0
  /\ game.player.shoot_timer = shoot_delay

(***************************************************************************)
(* Specification SpecMenu: the loop of main() with the mouse: where the    *)
(* pointer is and whether the left button is down, and the Button objects  *)
(* of the two menus with their clicked flag.                               *)
(***************************************************************************)
\* the rectangle of menu_buttons[i] (create_menu_buttons), i = 0 or 1
MenuButtonRect(i) ==
  LET button_width == 200
      button_height == 60
      start_y == WINDOW_HEIGHT \div 2 - 50
  IN [x |-> (WINDOW_WIDTH - button_width) \div 2,
      y |-> IF i = 0 THEN start_y ELSE start_y + button_height + 30,
      w |-> button_width, h |-> button_height]

\* the rectangle of pause_buttons[i] (create_pause_buttons), i = 0 or 1
PauseButtonRect(i) ==
  LET button_width == 200
      button_height == 60
      start_y == WINDOW_HEIGHT \div 2 - 50
  IN [x |-> (WINDOW_WIDTH - button_width) \div 2,
      y |-> IF i = 0 THEN start_y ELSE start_y + button_height + 30,
      w |-> button_width, h |-> button_height]

\* the rectangle of the i-th of the four answer buttons (i = 0..3)
AnswerButtonRect(i) ==
  LET button_width == 150
      button_height == 60
      spacing == 20
      total_width == (button_width + spacing) * 4 - spacing
      start_x == (WINDOW_WIDTH - total_width) \div 2
  IN [x |-> start_x + (button_width + spacing) * i, y |-> WINDOW_HEIGHT - 100,
      w |-> button_width, h |-> button_height]

\* pygame.Rect.collidepoint
CollidePoint(rect, point) ==
  /\ rect.x <= point[1] /\ point[1] < rect.x + rect.w
  /\ rect.y <= point[2] /\ point[2] < rect.y + rect.h

\* the middle of a rectangle
CentreOf(rect) == <<rect.x + rect.w \div 2, rect.y + rect.h \div 2>>

\* pygame.mouse.get_pos(): the positions followed (a corner of the window,
\* the middle of each menu button, the middle of the first answer button)
MousePoints ==
  {<<0, 0>>, CentreOf(MenuButtonRect(0)), CentreOf(MenuButtonRect(1)),
   CentreOf(AnswerButtonRect(0))}

\* Button.update: <<the button after the call, the value returned>>;
\* animation_progress is in fifths (steps of 0.2)
ButtonUpdate(button, hover, mouse_pressed) ==
  IF hover /\ mouse_pressed /\ ~button.clicked
  THEN <<[button EXCEPT !.clicked = TRUE], TRUE>>
  ELSE IF button.clicked
  THEN LET progress == Min(5, button.animation_progress + 1)
       IN <<IF progress >= 5
            THEN [button EXCEPT !.clicked = FALSE, !.animation_progress = 0]
            ELSE [button EXCEPT !.animation_progress = progress], FALSE>>
  ELSE <<button, FALSE>>

\* the loop over menu_buttons of lines 1261-1269: Quit (index 1) is reached
\* whether or not Start Game returned True; sys.exit() ends the loop
MenuButtonsAfter(buttons, point, mouse_pressed) ==
  [i \in 1..2 |->
     ButtonUpdate(buttons[i], CollidePoint(MenuButtonRect(i - 1), point),
                  mouse_pressed)[1]]

\* the loop over pause_buttons of lines 1273-1283
PauseButtonsAfter(buttons, point, mouse_pressed) ==
  [i \in 1..2 |->
     ButtonUpdate(buttons[i], CollidePoint(PauseButtonRect(i - 1), point),
                  mouse_pressed)[1]]

\* the button of a menu whose update returned True: "first", "second" or
\* "none" (the two rectangles of a menu are disjoint)
Activated(buttons, rect0, rect1, point, mouse_pressed) ==
  IF ButtonUpdate(buttons[1], CollidePoint(rect0, point), mouse_pressed)[2]
  THEN "first"
  ELSE IF ButtonUpdate(buttons[2], CollidePoint(rect1, point), mouse_pressed)[2]
  THEN "second"
  ELSE "none"

\* the button Game.handle_input finds activated in state g.state; an answer
\* button is new with its problem, so a press on it always activates it,
\* and is_correct is whether the shuffle put the correct answer there
ActivatedIn(g, point, mouse_pressed, is_correct) ==
  CASE g.state = "MENU" ->
         Activated(g.buttons.menu, MenuButtonRect(0), MenuButtonRect(1),
                   point, mouse_pressed)
    [] g.state = "PAUSED" ->
         Activated(g.buttons.pause, PauseButtonRect(0), PauseButtonRect(1),
                   point, mouse_pressed)
    [] g.state = "PLAYING" ->
         IF mouse_pressed /\ \E i \in 0..3 : CollidePoint(AnswerButtonRect(i), point)
         THEN IF is_correct THEN "correct" ELSE "wrong"
         ELSE "none"
    [] OTHER -> "none"

\* Game.handle_input with the mouse sampled as (point, mouse_pressed).
\* pointer and pressed are not attributes of Game: they keep that sample.
MouseHandleInput(g, point, mouse_pressed, is_correct, esc, gen) ==
  LET button == ActivatedIn(g, point, mouse_pressed, is_correct)
      g1 == HandleInput(g, [button |-> button, esc |-> esc, gen |-> gen])
      menu == IF g.state = "MENU"
              THEN MenuButtonsAfter(g.buttons.menu, point, mouse_pressed)
              ELSE g.buttons.menu
      pause == IF g.state = "PAUSED"
               THEN PauseButtonsAfter(g.buttons.pause, point, mouse_pressed)
               ELSE g.buttons.pause
  IN [g1 EXCEPT !.buttons = [menu |-> menu, pause |-> pause],
                !.pointer = point, !.pressed = mouse_pressed]

MenuBounds ==
  [score |-> 0, level |-> 1, bullets |-> 0, deltas |-> SessionDeltas,
   contacts |-> MenuContacts, moves |-> {"none"}]

\* game.handle_input() of the main loop, for every mouse sample followed
MouseHandleInputStep(b) ==
  /\ pc = "handle_input"
  /\ game.proc = "running"
  /\ \E point \in MousePoints : \E mouse_pressed \in BOOLEAN :
       \E is_correct \in BOOLEAN :
         \E esc \in (IF game.state = "PLAYING" THEN BOOLEAN ELSE {FALSE}) :
           \E gen \in (IF game.state = "MENU" THEN GenOutcomes(1) ELSE {"ok"}) :
             LET g == MouseHandleInput(game, point, mouse_pressed, is_correct, esc, gen)
             IN Within(g, b) /\ game' = g
  /\ pc' = "update"
  /\ UNCHANGED problemVars

MenuNext ==
  \/ MouseHandleInputStep(MenuBounds)
  \/ UpdateStep(MenuBounds)

SpecMenu == GameInit /\ [][MenuNext]_vars

\* the last mouse sample had the left button down over 'Quit to Menu'
HeldOverQuitToMenu(g) == g.pressed /\ CollidePoint(PauseButtonRect(1), g.pointer)

\* C27: when the left button stays pressed over the pause menu's 'Quit to
\* Menu' button for two consecutive ticks, the tick after the one that went
\* PAUSED -> MENU leaves the game in MENU with the process running.
C27_HeldPressStaysInMenu ==
  [][(/\ pc = "handle_input"
      /\ game.tick_state = "PAUSED" /\ game.state = "MENU"
      /\ HeldOverQuitToMenu(game)
      /\ HeldOverQuitToMenu(game')) =>
       (game'.state = "MENU" /\ game'.proc = "running")]_vars

\* C28: at every tick boundary where the state is PLAYING the player's
\* health is at least 1 and state_timer is not positive; the health is 0
\* only in GAME_OVER or in the MENU that follows it.
C28_PlayingIsAlive ==
  /\ (pc = "handle_input" /\ game.state = "PLAYING") =>
       (game.player.health >= 1 /\ game.state_timer <= 0)
  /\ game.player.health = 0 =>
       \/ game.state = "GAME_OVER"
       \/ game.state = "MENU" /\ game.state_timer <= 0

\* play goes on after a transition with a player that was hit twice
C28_Witness ==
  /\ pc = "handle_input"
  /\ game.tick_state = "LEVEL_TRANSITION"
  /\ game.state = "PLAYING"
  /\ game.player.health = 1
  /\ game.state_timer = 0

(***************************************************************************)
(* Specification SpecTransition: the loop of main() with every tick        *)
(* running (the loop calls handle_input and update in turn for as long as  *)
(* the process runs) and a positive elapsed time at each update.           *)
(***************************************************************************)
TransitionDeltas == {500, 1000}

TransitionBounds ==
  [score |-> SessionScore, level |-> SessionLevel, bullets |-> 0,
   deltas |-> TransitionDeltas, contacts |-> 0, moves |-> {"none"}]

TransitionNext ==
  \/ HandleInputStep(TransitionBounds)
  \/ UpdateStep(TransitionBounds)

SpecTransition ==
  /\ GameInit /\ [][TransitionNext]_vars
  /\ WF_vars(HandleInputStep(TransitionBounds))
  /\ WF_vars(UpdateStep(TransitionBounds))

\* C29: every LEVEL_TRANSITION is eventually followed by PLAYING with the
\* tick that built the new problem and the new wave finished, at every
\* level.
C29_TransitionLeadsToPlay ==
  (game.state = "LEVEL_TRANSITION") ~>
    (pc = "handle_input" /\ game.state = "PLAYING" /\ game.proc = "running")

\* what a paused tick leaves alone: score, level, streak, state_timer, the
\* player (position, health, invulnerability and shoot timers), the enemies
\* and the bullets
Frozen(g, h) ==
  /\ h.score = g.score /\ h.level = g.level /\ h.streak = g.streak
  /\ h.state_timer = g.state_timer
  /\ h.player = g.player
  /\ h.enemies = g.enemies
  /\ h.bullets = g.bullets

\* only the state (resume or quit-to-menu) and, on quit-to-menu, the high
\* score change
OnlyResumeOrQuit(g, h) ==
  /\ h.state \in {"PAUSED", "PLAYING", "MENU"}
  /\ h.high_score # g.high_score => h.state = "MENU"

\* handle_input of a tick that begins in PAUSED
PausedInputStep == pc = "handle_input" /\ game.state = "PAUSED"

\* update of a tick that began in PAUSED
PausedUpdateStep == pc = "update" /\ game.tick_state = "PAUSED"

\* C30 as stated: during every tick that begins in PAUSED (its handle_input
\* and its update) the score, level, streak, state_timer, player, enemies
\* and bullets are unchanged; only the state and the high score may change.
C30_PausedTickFrozen ==
  [][(PausedInputStep \/ PausedUpdateStep) =>
       (Frozen(game, game') /\ OnlyResumeOrQuit(game, game'))]_vars

\* C30 amended: the same for handle_input of every tick that begins in
\* PAUSED, and for its update unless Resume was activated in that tick (the
\* update of the resume tick already runs the PLAYING branch).
C30_PausedTickFrozenUnlessResumed ==
  [][(PausedInputStep \/ (PausedUpdateStep /\ game.state # "PLAYING")) =>
       (Frozen(game, game') /\ OnlyResumeOrQuit(game, game'))]_vars

\* a whole tick spent in PAUSED with a bullet in flight and a player that
\* was hit
C30_Witness ==
  /\ pc = "handle_input"
  /\ game.tick_state = "PAUSED"
  /\ game.state = "PAUSED"
  /\ Len(game.bullets) >= 1
  /\ Len(game.enemies) >= 1
  /\ game.player.health = 2
====
